---- MODULE Spec2Model ----
(***************************************************************************)
(* ZenRoutine: the client-side store (src/store/useAppStore.ts) and the    *)
(* engine's validation functions (core/engine/validation.ts), as state     *)
(* machines.                                                               *)
(*                                                                         *)
(* Ids are positive integers handed out by a counter (generateId returns   *)
(* a fresh string each call); NoId stands for undefined / null / ''        *)
(* (all falsy in the source).  Timestamps are counted in ticks of 30 s,    *)
(* so that Math.round((end - start) / 60000) is a real rounding;           *)
(* Undefined stands for an absent endTime.                                 *)
(***************************************************************************)
EXTENDS Integers, Sequences, FiniteSets, TLC

VARIABLES
    activityTypes,           \* AppState.activityTypes: sequence of ids
    goals,                   \* AppState.goals
    routines,                \* AppState.routines (each with its blocks)
    trackingEntries,         \* AppState.trackingEntries
    activeRoutineId,         \* AppState.activeRoutineId
    currentTrackingEntryId,  \* AppState.currentTrackingEntryId
    nextId,                  \* the ids generateId has handed out so far
    now,                     \* the wall clock (new Date()), in ticks
    last,                    \* the last step taken: the store action called
    input,                   \* argument of the engine function applied
    output                   \* its result

vars == <<activityTypes, goals, routines, trackingEntries, activeRoutineId,
          currentTrackingEntryId, nextId, now, last, input, output>>

storeVars == <<activityTypes, goals, routines, trackingEntries, activeRoutineId,
               currentTrackingEntryId, nextId, now, last>>

----------------------------------------------------------------------------
(* Bounds of the model *)

MaxTime == 2       \* the clock stops at MaxTime ticks
MaxEstimate == 2   \* goals are estimated at 1..MaxEstimate minutes
MaxLogged == 3     \* logging stops at MaxLogged minutes
MaxBlocks == 2     \* findOverlappingBlocks is given up to MaxBlocks blocks
MaxMinute == 3     \* ... whose times lie in 0..MaxMinute
MaxNameLen == 2    \* validateGoal is given names of up to MaxNameLen characters
MaxTextLen == 2    \* the minutes typed in the goal form: up to MaxTextLen characters
MaxGoals == 3      \* predictAllGoals is given up to MaxGoals goals
MaxEntries == 2    \* getTrackedBreakdown is given up to MaxEntries entries
MaxDuration == 300 \* formatDuration is given up to MaxDuration ticks

(* The default activity types, createDefaultActivityTypes *)

DefaultTypeIds == {1}

(* Representation *)

NoId == 0
Undefined == 0 - 1
TicksPerMinute == 2

(* Program constants *)

MinutesInDay == 1440
LastDayOfWeek == 6
MinutesInWeek == 10080
HighConfidenceEntries == 14
MediumConfidenceEntries == 7

(* The platform: JavaScript numbers are IEEE 754 doubles, with            *)
(* SignificandBits significant bits; a Date is an instant, counted here in *)
(* ticks, which has a UTC calendar day and a local one                     *)

SignificandBits == 53
TicksPerHour == 60 * TicksPerMinute
TicksPerDay == 24 * TicksPerHour

Statuses == {"active", "completed", "paused", "archived"}

----------------------------------------------------------------------------
(* Array helpers: map, filter, some *)

MapSeq(s, F(_)) == [i \in 1..Len(s) |-> F(s[i])]

Some(s, P(_)) == \E i \in 1..Len(s) : P(s[i])

Ids(s) == {s[i].id : i \in 1..Len(s)}

\* { ...obj, ...data }: the fields data names replace obj's
Merge(obj, data) ==
    [f \in DOMAIN obj |-> IF f \in DOMAIN data THEN data[f] ELSE obj[f]]

\* Array.prototype.find by id: the first element with that id
FindById(s, id) == s[CHOOSE i \in 1..Len(s) :
                        /\ s[i].id = id
                        /\ \A j \in 1..(i - 1) : s[j].id # id]

\* a rounding that drops the fraction instead (Math.floor)
FloorMinutes(dt) == dt \div TicksPerMinute

\* Math.round(x / 60000) for a difference of dt ticks: round half up
RoundMinutes(dt) == (2 * dt + TicksPerMinute) \div (2 * TicksPerMinute)

----------------------------------------------------------------------------
(* Initial state: createInitialState *)

NoCall == [op |-> "init"]

\* the store as created, at the instant t
StoreInitAt(t) ==
    /\ activityTypes = [i \in 1..Cardinality(DefaultTypeIds) |-> i]
    /\ goals = <<>>
    /\ routines = <<>>
    /\ trackingEntries = <<>>
    /\ activeRoutineId = NoId
    /\ currentTrackingEntryId = NoId
    /\ nextId = [activity |-> Cardinality(DefaultTypeIds) + 1, goal |-> 1, routine |-> 1,
                 block |-> 1, entry |-> 1]
    /\ now = t
    /\ last = NoCall

StoreInit == StoreInitAt(0)

EngineIdle ==
    /\ input = <<>>
    /\ output = <<>>

----------------------------------------------------------------------------
(* Goal actions *)

\* a completion test that misses the exact hit
IsCompletedStrict(newLoggedMinutes, estimatedMinutes) ==
    newLoggedMinutes > estimatedMinutes

\* logMinutesToGoal: "newLoggedMinutes >= g.estimatedMinutes"
IsCompleted(newLoggedMinutes, estimatedMinutes) ==
    newLoggedMinutes >= estimatedMinutes

\* the goals array after logMinutesToGoal(id, minutes)
LoggedGoals(gs, id, minutes) ==
    MapSeq(gs, LAMBDA g :
        IF g.id # id THEN g
        ELSE LET newLoggedMinutes == g.loggedMinutes + minutes
                 isCompleted == IsCompleted(newLoggedMinutes, g.estimatedMinutes)
             IN [g EXCEPT !.loggedMinutes = newLoggedMinutes,
                          !.status = IF isCompleted THEN "completed" ELSE g.status])

\* the model stops logging at MaxLogged minutes
WithinCap(gs) == \A i \in 1..Len(gs) : gs[i].loggedMinutes <= MaxLogged

addGoal(estimatedMinutes, activityTypeId) ==
    /\ goals' = Append(goals, [id |-> nextId.goal,
                               estimatedMinutes |-> estimatedMinutes,
                               loggedMinutes |-> 0,
                               status |-> "active",
                               activityTypeId |-> activityTypeId])
    /\ nextId' = [nextId EXCEPT !.goal = @ + 1]
    /\ last' = [op |-> "addGoal"]
    /\ UNCHANGED <<activityTypes, routines, trackingEntries, activeRoutineId,
                   currentTrackingEntryId, now>>

updateGoal(id, data) ==
    /\ goals' = MapSeq(goals, LAMBDA g : IF g.id = id THEN Merge(g, data) ELSE g)
    /\ last' = [op |-> "updateGoal"]
    /\ UNCHANGED <<activityTypes, routines, trackingEntries, activeRoutineId,
                   currentTrackingEntryId, nextId, now>>

logMinutesToGoal(id, minutes) ==
    /\ goals' = LoggedGoals(goals, id, minutes)
    /\ last' = [op |-> "logMinutesToGoal"]
    /\ UNCHANGED <<activityTypes, routines, trackingEntries, activeRoutineId,
                   currentTrackingEntryId, nextId, now>>

setGoalStatus(id, status) ==
    /\ goals' = MapSeq(goals, LAMBDA g :
                    IF g.id = id THEN [g EXCEPT !.status = status] ELSE g)
    /\ last' = [op |-> "setGoalStatus"]
    /\ UNCHANGED <<activityTypes, routines, trackingEntries, activeRoutineId,
                   currentTrackingEntryId, nextId, now>>

----------------------------------------------------------------------------
(* Tracking actions *)

\* stopTracking logging whatever the sign of the duration
ShouldLogAnyDuration(goalId, durationMinutes) == goalId # NoId

\* stopTracking: "if (entry.goalId && durationMinutes > 0)"
ShouldLog(goalId, durationMinutes) == goalId # NoId /\ durationMinutes > 0

\* stopTracking stopping an entry whether or not it has an endTime
IsNeverFinished(entry) == FALSE

\* stopTracking: "entry.endTime" in "if (!entry || entry.endTime) return"
IsFinished(entry) == entry.endTime # Undefined

\* The store after stopTracking(id), as <<trackingEntries, current, goals>>
StoppedState(es, cur, gs, id) ==
    LET entryId == IF id # NoId THEN id ELSE cur
    IN  IF entryId = NoId THEN <<es, cur, gs>>
        ELSE IF entryId \notin Ids(es) THEN <<es, cur, gs>>
        ELSE LET entry == FindById(es, entryId)
             IN  IF IsFinished(entry) THEN <<es, cur, gs>>
                 ELSE LET durationMinutes == RoundMinutes(now - entry.startTime)
                          es2 == MapSeq(es, LAMBDA e :
                                     IF e.id = entryId
                                     THEN [e EXCEPT !.endTime = now] ELSE e)
                          cur2 == IF cur = entryId THEN NoId ELSE cur
                          gs2 == IF ShouldLog(entry.goalId, durationMinutes)
                                 THEN LoggedGoals(gs, entry.goalId, durationMinutes)
                                 ELSE gs
                      IN <<es2, cur2, gs2>>

\* startTracking without "if (state.currentTrackingEntryId) get().stopTracking()"
startTrackingWithoutStopping(activityTypeId, goalId) ==
    /\ trackingEntries' = Append(trackingEntries,
                                 [id |-> nextId.entry,
                                  startTime |-> now,
                                  endTime |-> Undefined,
                                  activityTypeId |-> activityTypeId,
                                  goalId |-> goalId])
    /\ currentTrackingEntryId' = nextId.entry
    /\ nextId' = [nextId EXCEPT !.entry = @ + 1]
    /\ last' = [op |-> "startTracking", stopped |-> NoId]
    /\ UNCHANGED <<activityTypes, goals, routines, activeRoutineId, now>>

\* last.stopped is the entry that the call stopped first, if any
startTracking(activityTypeId, goalId) ==
    /\ LET stopped == IF currentTrackingEntryId # NoId
                      THEN StoppedState(trackingEntries, currentTrackingEntryId,
                                        goals, NoId)
                      ELSE <<trackingEntries, currentTrackingEntryId, goals>>
           newEntry == [id |-> nextId.entry,
                        startTime |-> now,
                        endTime |-> Undefined,
                        activityTypeId |-> activityTypeId,
                        goalId |-> goalId]
       IN /\ trackingEntries' = Append(stopped[1], newEntry)
          /\ currentTrackingEntryId' = nextId.entry
          /\ goals' = stopped[3]
          /\ nextId' = [nextId EXCEPT !.entry = @ + 1]
          /\ last' = [op |-> "startTracking",
                      stopped |-> IF stopped[1] # trackingEntries
                                  THEN currentTrackingEntryId ELSE NoId]
    /\ UNCHANGED <<activityTypes, routines, activeRoutineId, now>>

stopTracking(id) ==
    /\ LET stopped == StoppedState(trackingEntries, currentTrackingEntryId, goals, id)
       IN /\ trackingEntries' = stopped[1]
          /\ currentTrackingEntryId' = stopped[2]
          /\ goals' = stopped[3]
          /\ last' = [op |-> "stopTracking", id |-> id]
    /\ UNCHANGED <<activityTypes, routines, activeRoutineId, nextId, now>>

addCompletedEntry(startTime, endTime, activityTypeId, goalId) ==
    /\ trackingEntries' = Append(trackingEntries,
                                 [id |-> nextId.entry,
                                  startTime |-> startTime,
                                  endTime |-> endTime,
                                  activityTypeId |-> activityTypeId,
                                  goalId |-> goalId])
    /\ goals' = IF goalId # NoId /\ endTime # Undefined
                THEN LET durationMinutes == RoundMinutes(endTime - startTime)
                     IN IF durationMinutes > 0
                        THEN LoggedGoals(goals, goalId, durationMinutes)
                        ELSE goals
                ELSE goals
    /\ nextId' = [nextId EXCEPT !.entry = @ + 1]
    /\ last' = [op |-> "addCompletedEntry"]
    /\ UNCHANGED <<activityTypes, routines, activeRoutineId,
                   currentTrackingEntryId, now>>

updateTrackingEntry(id, data) ==
    /\ trackingEntries' = MapSeq(trackingEntries, LAMBDA e :
                              IF e.id = id THEN Merge(e, data) ELSE e)
    /\ last' = [op |-> "updateTrackingEntry"]
    /\ UNCHANGED <<activityTypes, goals, routines, activeRoutineId,
                   currentTrackingEntryId, nextId, now>>

deleteTrackingEntry(id) ==
    /\ trackingEntries' = SelectSeq(trackingEntries, LAMBDA e : e.id # id)
    /\ currentTrackingEntryId' =
           IF currentTrackingEntryId = id THEN NoId ELSE currentTrackingEntryId
    /\ last' = [op |-> "deleteTrackingEntry"]
    /\ UNCHANGED <<activityTypes, goals, routines, activeRoutineId, nextId, now>>

----------------------------------------------------------------------------
(* Activity type actions *)

addActivityType ==
    /\ activityTypes' = Append(activityTypes, nextId.activity)
    /\ nextId' = [nextId EXCEPT !.activity = @ + 1]
    /\ last' = [op |-> "addActivityType", id |-> nextId.activity]
    /\ UNCHANGED <<goals, routines, trackingEntries, activeRoutineId,
                   currentTrackingEntryId, now>>

\* a reference check that forgets the tracking entries
IsInUseNoEntries(id) ==
    \/ Some(goals, LAMBDA g : g.activityTypeId = id)
    \/ Some(routines, LAMBDA r : Some(r.blocks, LAMBDA b : b.activityTypeId = id))

\* deleteActivityType: isInUseByGoal || isInUseByRoutine || isInUseByEntry
IsInUse(id) ==
    \/ Some(goals, LAMBDA g : g.activityTypeId = id)
    \/ Some(routines, LAMBDA r : Some(r.blocks, LAMBDA b : b.activityTypeId = id))
    \/ Some(trackingEntries, LAMBDA e : e.activityTypeId = id)

deleteActivityType(id) ==
    /\ activityTypes' = IF IsInUse(id) THEN activityTypes
                        ELSE SelectSeq(activityTypes, LAMBDA at : at # id)
    /\ last' = [op |-> "deleteActivityType", id |-> id, inUse |-> IsInUse(id)]
    /\ UNCHANGED <<goals, routines, trackingEntries, activeRoutineId,
                   currentTrackingEntryId, nextId, now>>

----------------------------------------------------------------------------
(* deleteGoal *)

\* a deleteGoal that drops the referencing blocks
BlocksWithoutGoalDropped(blocks, id) == SelectSeq(blocks, LAMBDA b : b.goalId # id)

\* deleteGoal: b.goalId === id ? { ...b, goalId: undefined } : b
BlocksWithoutGoal(blocks, id) ==
    MapSeq(blocks, LAMBDA b : IF b.goalId = id THEN [b EXCEPT !.goalId = NoId] ELSE b)

deleteGoal(id) ==
    /\ goals' = SelectSeq(goals, LAMBDA g : g.id # id)
    /\ routines' = MapSeq(routines, LAMBDA r :
                       [r EXCEPT !.blocks = BlocksWithoutGoal(r.blocks, id)])
    /\ last' = [op |-> "deleteGoal", id |-> id,
                 cleared |-> Some(routines, LAMBDA r :
                                 Some(r.blocks, LAMBDA b : b.goalId = id))]
    /\ UNCHANGED <<activityTypes, trackingEntries, activeRoutineId,
                   currentTrackingEntryId, nextId, now>>

----------------------------------------------------------------------------
(* Routine actions *)

addRoutine ==
    /\ routines' = Append(routines, [id |-> nextId.routine,
                                     isActive |-> FALSE,
                                     blocks |-> <<>>])
    /\ nextId' = [nextId EXCEPT !.routine = @ + 1]
    /\ last' = [op |-> "addRoutine", id |-> nextId.routine]
    /\ UNCHANGED <<activityTypes, goals, trackingEntries, activeRoutineId,
                   currentTrackingEntryId, now>>

updateRoutine(id, data) ==
    /\ routines' = MapSeq(routines, LAMBDA r : IF r.id = id THEN Merge(r, data) ELSE r)
    /\ last' = [op |-> "updateRoutine", id |-> id]
    /\ UNCHANGED <<activityTypes, goals, trackingEntries, activeRoutineId,
                   currentTrackingEntryId, nextId, now>>

deleteRoutine(id) ==
    /\ routines' = SelectSeq(routines, LAMBDA r : r.id # id)
    /\ activeRoutineId' = IF activeRoutineId = id THEN NoId ELSE activeRoutineId
    /\ last' = [op |-> "deleteRoutine", id |-> id]
    /\ UNCHANGED <<activityTypes, goals, trackingEntries,
                   currentTrackingEntryId, nextId, now>>

setActiveRoutine(id) ==
    /\ routines' = MapSeq(routines, LAMBDA r : [r EXCEPT !.isActive = (r.id = id)])
    /\ activeRoutineId' = id
    /\ last' = [op |-> "setActiveRoutine", id |-> id]
    /\ UNCHANGED <<activityTypes, goals, trackingEntries,
                   currentTrackingEntryId, nextId, now>>

duplicateRoutine(id) ==
    /\ last' = [op |-> "duplicateRoutine", id |-> id]
    /\ IF id \notin Ids(routines)
       THEN UNCHANGED <<routines, nextId>>
       ELSE LET sourceRoutine == FindById(routines, id)
                newRoutine ==
                    [sourceRoutine EXCEPT
                        !.id = nextId.routine,
                        !.isActive = FALSE,
                        !.blocks = [i \in 1..Len(sourceRoutine.blocks) |->
                                       [sourceRoutine.blocks[i] EXCEPT
                                           !.id = nextId.block + i - 1]]]
            IN /\ routines' = Append(routines, newRoutine)
               /\ nextId' = [nextId EXCEPT
                                !.routine = @ + 1,
                                !.block = @ + Len(sourceRoutine.blocks)]
    /\ UNCHANGED <<activityTypes, goals, trackingEntries, activeRoutineId,
                   currentTrackingEntryId, now>>

initializeDefaults ==
    /\ last' = [op |-> "initializeDefaults"]
    /\ IF Len(activityTypes) = 0
       THEN activityTypes' = [i \in 1..Cardinality(DefaultTypeIds) |->
                                 nextId.activity + i - 1]
       ELSE UNCHANGED activityTypes
    /\ IF Len(routines) = 0
       THEN /\ routines' = <<[id |-> nextId.routine, isActive |-> TRUE,
                              blocks |-> <<>>]>>
            /\ activeRoutineId' = nextId.routine
       ELSE UNCHANGED <<routines, activeRoutineId>>
    /\ nextId' = [nextId EXCEPT
                     !.activity = IF Len(activityTypes) = 0
                                  THEN @ + Cardinality(DefaultTypeIds) ELSE @,
                     !.routine = IF Len(routines) = 0 THEN @ + 1 ELSE @]
    /\ UNCHANGED <<goals, trackingEntries, currentTrackingEntryId, now>>

----------------------------------------------------------------------------
(* Routine block actions *)

\* the routines after addRoutineBlock's set(): block, with the id given, at
\* the end of the routine's blocks
RoutinesWithBlock(rs, routineId, block, id) ==
    MapSeq(rs, LAMBDA r :
        IF r.id = routineId
        THEN [r EXCEPT !.blocks =
                 Append(@, [id |-> id,
                            dayOfWeek |-> block.dayOfWeek,
                            startMinutes |-> block.startMinutes,
                            endMinutes |-> block.endMinutes,
                            activityTypeId |-> block.activityTypeId,
                            goalId |-> block.goalId])]
        ELSE r)

\* block: the new block's fields, without id
addRoutineBlock(routineId, block) ==
    /\ last' = [op |-> "addRoutineBlock", id |-> routineId]
    /\ IF routineId \notin Ids(routines)
       THEN UNCHANGED <<routines, nextId>>
       ELSE /\ routines' = RoutinesWithBlock(routines, routineId, block,
                                             nextId.block)
            /\ nextId' = [nextId EXCEPT !.block = @ + 1]
    /\ UNCHANGED <<activityTypes, goals, trackingEntries, activeRoutineId,
                   currentTrackingEntryId, now>>

\* the routines after updateRoutineBlock's set()
RoutinesWithBlockUpdated(rs, routineId, blockId, data) ==
    MapSeq(rs, LAMBDA r :
        IF r.id = routineId
        THEN [r EXCEPT !.blocks = MapSeq(@, LAMBDA b :
                 IF b.id = blockId THEN Merge(b, data) ELSE b)]
        ELSE r)

updateRoutineBlock(routineId, blockId, data) ==
    /\ routines' = RoutinesWithBlockUpdated(routines, routineId, blockId, data)
    /\ last' = [op |-> "updateRoutineBlock", id |-> routineId]
    /\ UNCHANGED <<activityTypes, goals, trackingEntries, activeRoutineId,
                   currentTrackingEntryId, nextId, now>>

deleteRoutineBlock(routineId, blockId) ==
    /\ routines' = MapSeq(routines, LAMBDA r :
           IF r.id = routineId
           THEN [r EXCEPT !.blocks = SelectSeq(@, LAMBDA b : b.id # blockId)]
           ELSE r)
    /\ last' = [op |-> "deleteRoutineBlock", id |-> routineId]
    /\ UNCHANGED <<activityTypes, goals, trackingEntries, activeRoutineId,
                   currentTrackingEntryId, nextId, now>>

\* copyDayBlocks: toDays is a sequence of days
copyDayBlocks(routineId, fromDay, toDays) ==
    /\ last' = [op |-> "copyDayBlocks", id |-> routineId, fromDay |-> fromDay,
                toDays |-> toDays]
    /\ IF routineId \notin Ids(routines)
       THEN UNCHANGED <<routines, nextId>>
       ELSE LET routine == FindById(routines, routineId)
                sourceBlocks ==
                    SelectSeq(routine.blocks, LAMBDA b : b.dayOfWeek = fromDay)
                n == Len(sourceBlocks)
                newBlocks ==
                    [k \in 1..(Len(toDays) * n) |->
                        [sourceBlocks[((k - 1) % n) + 1] EXCEPT
                            !.id = nextId.block + k - 1,
                            !.dayOfWeek = toDays[((k - 1) \div n) + 1]]]
                filteredBlocks ==
                    SelectSeq(routine.blocks, LAMBDA b :
                        ~Some(toDays, LAMBDA d : d = b.dayOfWeek))
            IN /\ routines' = MapSeq(routines, LAMBDA r :
                      IF r.id = routineId
                      THEN [r EXCEPT !.blocks = filteredBlocks \o newBlocks]
                      ELSE r)
               /\ nextId' = [nextId EXCEPT !.block = @ + Len(newBlocks)]
    /\ UNCHANGED <<activityTypes, goals, trackingEntries, activeRoutineId,
                   currentTrackingEntryId, now>>

----------------------------------------------------------------------------
(* The engine's validation functions (core/engine/validation.ts).  A       *)
(* Partial<T> is a record that has only some of T's fields; a field that   *)
(* is undefined is not in its domain.  A string is a sequence of           *)
(* characters.                                                             *)

Has(obj, f) == f \in DOMAIN obj

Error(field, message) == [field |-> field, message |-> message]

\* a range test that lets 1440 through
OutOfDayLoose(m) == m < 0 \/ m > MinutesInDay

\* validateRoutineBlock: "< 0 || >= 1440"
OutOfDay(m) == m < 0 \/ m >= MinutesInDay

validateRoutineBlock(block) ==
    LET e1 == IF ~Has(block, "startMinutes") \/ OutOfDay(block.startMinutes)
              THEN <<Error("startMinutes",
                           "Start time must be between 0 and 1439 minutes")>>
              ELSE <<>>
        e2 == IF ~Has(block, "endMinutes") \/ OutOfDay(block.endMinutes)
              THEN <<Error("endMinutes",
                           "End time must be between 0 and 1439 minutes")>>
              ELSE <<>>
        e3 == IF /\ Has(block, "startMinutes") /\ Has(block, "endMinutes")
                 /\ block.startMinutes = block.endMinutes
              THEN <<Error("endMinutes",
                           "Block must have a duration greater than 0")>>
              ELSE <<>>
        e4 == IF \/ ~Has(block, "dayOfWeek")
                 \/ block.dayOfWeek < 0
                 \/ block.dayOfWeek > LastDayOfWeek
              THEN <<Error("dayOfWeek",
                           "Day of week must be between 0 (Sunday) and 6 (Saturday)")>>
              ELSE <<>>
        e5 == IF ~Has(block, "activityTypeId") \/ block.activityTypeId = NoId
              THEN <<Error("activityTypeId", "Activity type is required")>>
              ELSE <<>>
        errors == e1 \o e2 \o e3 \o e4 \o e5
    IN [isValid |-> Len(errors) = 0, errors |-> errors]

\* an overlap test that counts blocks that only touch
OverlapsOrTouches(existing, newBlock) ==
    ~(newBlock.endMinutes < existing.startMinutes
        \/ newBlock.startMinutes > existing.endMinutes)

\* findOverlappingBlocks: !(newEnd <= existingStart || newStart >= existingEnd)
Overlaps(existing, newBlock) ==
    ~(newBlock.endMinutes <= existing.startMinutes
        \/ newBlock.startMinutes >= existing.endMinutes)

findOverlappingBlocks(blocks, newBlock) ==
    SelectSeq(blocks, LAMBDA existing :
        IF existing.id = newBlock.id THEN FALSE
        ELSE IF existing.dayOfWeek # newBlock.dayOfWeek THEN FALSE
        ELSE Overlaps(existing, newBlock))

IsSpace(c) == c = " "

\* String.prototype.trim: drop the white space at both ends
RECURSIVE TrimStart(_)
TrimStart(str) ==
    IF Len(str) > 0 /\ IsSpace(Head(str)) THEN TrimStart(Tail(str)) ELSE str

RECURSIVE TrimEnd(_)
TrimEnd(str) ==
    IF Len(str) > 0 /\ IsSpace(str[Len(str)])
    THEN TrimEnd(SubSeq(str, 1, Len(str) - 1)) ELSE str

Trim(str) == TrimEnd(TrimStart(str))

\* a name test that does not trim
IsBlankUntrimmed(name) == Len(name) = 0

\* validateGoal: "!goal.name || goal.name.trim().length === 0"
IsBlank(name) == Len(name) = 0 \/ Len(Trim(name)) = 0

validateGoal(goal) ==
    LET e1 == IF ~Has(goal, "name") \/ IsBlank(goal.name)
              THEN <<Error("name", "Goal name is required")>>
              ELSE <<>>
        e2 == IF ~Has(goal, "estimatedMinutes") \/ goal.estimatedMinutes <= 0
              THEN <<Error("estimatedMinutes",
                           "Estimated time must be greater than 0")>>
              ELSE <<>>
        e3 == IF ~Has(goal, "activityTypeId") \/ goal.activityTypeId = NoId
              THEN <<Error("activityTypeId", "Activity type is required")>>
              ELSE <<>>
        errors == e1 \o e2 \o e3
    IN [isValid |-> Len(errors) = 0, errors |-> errors]

----------------------------------------------------------------------------
(* JavaScript arithmetic on doubles.  A positive double is a record        *)
(* [hi, lo, point]: its SignificandBits significant bits, the first HiBits *)
(* of them as the number hi and the other LoBits as the number lo, and the *)
(* number of them before the binary point (none or less when the value is  *)
(* below 1).  Quotients and products are rounded to the nearest double,    *)
(* ties to even, as the language requires.                                 *)

HiBits == 26
LoBits == SignificandBits - HiBits

\* the len lowest bits of n, most significant first
Bits(n, len) == [j \in 1..len |-> (n \div 2^(len - j)) % 2]

\* the number of bits of n, for n below 2^30
BitLength(n) == CHOOSE k \in 0..30 : n < 2^k /\ (k = 0 \/ n >= 2^(k - 1))

\* the number that bits from..to of a bit string spell
RECURSIVE ValueOfBits(_, _, _)
ValueOfBits(bits, from, to) ==
    IF to < from THEN 0
    ELSE 2 * ValueOfBits(bits, from, to - 1) + bits[to]

\* all: the exact bits from the first 1 on, more than SignificandBits of
\* them; sticky: the exact value has further nonzero bits beyond all
RoundToNearestEven(all, point, sticky) ==
    LET hi == ValueOfBits(all, 1, HiBits)
        lo == ValueOfBits(all, HiBits + 1, SignificandBits)
        half == all[SignificandBits + 1] = 1
        more == sticky \/ \E i \in (SignificandBits + 2)..Len(all) : all[i] = 1
        up == half /\ (more \/ lo % 2 = 1)
    IN IF ~up THEN [hi |-> hi, lo |-> lo, point |-> point]
       ELSE IF lo + 1 < 2^LoBits
       THEN [hi |-> hi, lo |-> lo + 1, point |-> point]
       ELSE IF hi + 1 < 2^HiBits
       THEN [hi |-> hi + 1, lo |-> 0, point |-> point]
       ELSE [hi |-> 2^(HiBits - 1), lo |-> 0, point |-> point + 1]

\* long division of a by b, b below 2^14, in steps of ChunkBits bits
ChunkBits == 13
Chunks == 6

\* what is left of a after the whole part and k steps of the fraction
RECURSIVE RemainderAfter(_, _, _)
RemainderAfter(a, b, k) ==
    IF k = 0 THEN a % b
    ELSE (RemainderAfter(a, b, k - 1) * 2^ChunkBits) % b

\* a / b for positive integers a below 2^30 and b below 2^14
DoubleQuotient(a, b) ==
    LET whole == Bits(a \div b, BitLength(a \div b))
        Step(k) == Bits((RemainderAfter(a, b, k - 1) * 2^ChunkBits) \div b,
                        ChunkBits)
        exact == whole \o Step(1) \o Step(2) \o Step(3) \o Step(4)
                       \o Step(5) \o Step(6)
        first == CHOOSE i \in 1..Len(exact) :
                     exact[i] = 1 /\ \A j \in 1..(i - 1) : exact[j] = 0
    IN RoundToNearestEven(SubSeq(exact, first, Len(exact)),
                          Len(whole) - (first - 1),
                          RemainderAfter(a, b, Chunks) > 0)

\* x * 7 for a positive double x
DoubleTimes7(x) ==
    LET low == x.lo * 7
        high == x.hi * 7 + (low \div 2^LoBits)
        exact == Bits(high, BitLength(high)) \o Bits(low % 2^LoBits, LoBits)
    IN RoundToNearestEven(exact, x.point + Len(exact) - SignificandBits, FALSE)

\* x * n for a positive double x and a positive integer n below 2^7, the
\* significand of x taken in four digits of 13, 13, 14 and 13 bits
DoubleTimes(x, n) ==
    LET p0 == (x.lo % 2^13) * n
        p1 == (x.lo \div 2^13) * n + (p0 \div 2^13)
        p2 == (x.hi % 2^13) * n + (p1 \div 2^14)
        p3 == (x.hi \div 2^13) * n + (p2 \div 2^13)
        exact == Bits(p3, BitLength(p3)) \o Bits(p2 % 2^13, 13)
                     \o Bits(p1 % 2^14, 14) \o Bits(p0 % 2^13, 13)
    IN RoundToNearestEven(exact, x.point + Len(exact) - SignificandBits, FALSE)

\* x / 2 for a double x
DoubleHalf(x) == [x EXCEPT !.point = @ - 1]

\* Math.ceil(x) for a positive double x below 2^30
MathCeil(x) ==
    LET bits == Bits(x.hi, HiBits) \o Bits(x.lo, LoBits)
    IN IF x.point <= 0 THEN 1
       ELSE ValueOfBits(bits, 1, x.point)
              + (IF \E i \in (x.point + 1)..SignificandBits : bits[i] = 1
                 THEN 1 ELSE 0)

\* the number 0
DoubleZero == [hi |-> 0, lo |-> 0, point |-> 0]

(* JavaScript dates.  A time zone has a standard offset from UTC and may   *)
(* put its clocks forward one hour from the instant summerFrom up to the   *)
(* instant summerUntil.                                                    *)

Null == [null |-> TRUE]

OffsetAt(zone, t) ==
    IF zone.hasSummerTime /\ t >= zone.summerFrom /\ t < zone.summerUntil
    THEN zone.standardOffset + TicksPerHour
    ELSE zone.standardOffset

\* the instant of a local time (one the clocks skip is read in standard
\* time, one the clocks show twice in summer time)
UtcOfLocal(zone, local) ==
    LET standard == local - zone.standardOffset
        summer == standard - TicksPerHour
    IN IF zone.hasSummerTime /\ summer >= zone.summerFrom
                             /\ summer < zone.summerUntil
       THEN summer
       ELSE standard

\* date.setDate(date.getDate() + days): the same local time, days later
AddLocalDays(zone, t, days) ==
    UtcOfLocal(zone, t + OffsetAt(zone, t) + days * TicksPerDay)

\* date.toISOString().split('T')[0]: the UTC calendar day, as a day count
IsoDate(t) == [day |-> t \div TicksPerDay]

----------------------------------------------------------------------------
(* The engine's prediction functions (core/engine/prediction.ts)           *)

\* "duration < 0 ? duration + 1440 : duration"
AdjustedDuration(block) ==
    LET duration == block.endMinutes - block.startMinutes
    IN IF duration < 0 THEN duration + MinutesInDay ELSE duration

\* blocks.reduce((sum, block) => sum + adjustedDuration, 0)
RECURSIVE SumOfDurations(_)
SumOfDurations(blocks) ==
    IF Len(blocks) = 0 THEN 0
    ELSE SumOfDurations(SubSeq(blocks, 1, Len(blocks) - 1))
           + AdjustedDuration(blocks[Len(blocks)])

getWeeklyMinutesForActivityType(routine, activityTypeId) ==
    SumOfDurations(SelectSeq(routine.blocks,
                             LAMBDA block : block.activityTypeId = activityTypeId))

\* a confidence rule that counts the whole history
HistoryCountAll(trackingHistory, goal) == Len(trackingHistory)

\* "trackingHistory.filter(e => e.activityTypeId === goal.activityTypeId)"
RelevantEntries(trackingHistory, goal) ==
    Len(SelectSeq(trackingHistory,
                  LAMBDA e : e.activityTypeId = goal.activityTypeId))

\* a goal counted as done only when it is overdone
IsDoneStrict(remainingMinutes) == remainingMinutes < 0

\* "remainingMinutes <= 0 ? ... : null"
IsDone(remainingMinutes) == remainingMinutes <= 0

\* "weeklyMinutes === 0 || remainingMinutes <= 0"
IsDegenerate(weeklyMinutes, remainingMinutes) ==
    weeklyMinutes = 0 \/ remainingMinutes <= 0

\* predictGoalCompletion; optional holds trackingHistory when it is passed;
\* date is what new Date() gives: the instant now and the device's time zone
predictGoalCompletion(goal, routine, optional, date) ==
    LET weeklyMinutes ==
            getWeeklyMinutesForActivityType(routine, goal.activityTypeId)
        remainingMinutes == goal.estimatedMinutes - goal.loggedMinutes
        weeksRemaining == DoubleQuotient(remainingMinutes, weeklyMinutes)
        daysRemaining == MathCeil(DoubleTimes7(weeksRemaining))
        completionDate == AddLocalDays(date.timeZone, date.now, daysRemaining)
        relevantEntries ==
            IF Has(optional, "trackingHistory")
                  /\ Len(optional.trackingHistory) > 0
            THEN RelevantEntries(optional.trackingHistory, goal)
            ELSE 0
    IN IF IsDegenerate(weeklyMinutes, remainingMinutes)
       THEN [goalId |-> goal.id,
             predictedCompletionDate |->
                 IF IsDone(remainingMinutes) THEN IsoDate(date.now) ELSE Null,
             weeklyMinutesAllocated |-> weeklyMinutes,
             remainingMinutes |->
                 IF remainingMinutes > 0 THEN remainingMinutes ELSE 0,
             weeksRemaining |->
                 IF IsDone(remainingMinutes) THEN DoubleZero ELSE Null,
             confidenceLevel |-> "low"]
       ELSE [goalId |-> goal.id,
             predictedCompletionDate |-> IsoDate(completionDate),
             weeklyMinutesAllocated |-> weeklyMinutes,
             remainingMinutes |-> remainingMinutes,
             weeksRemaining |-> weeksRemaining,
             confidenceLevel |->
                 IF relevantEntries >= HighConfidenceEntries THEN "high"
                 ELSE IF relevantEntries >= MediumConfidenceEntries
                 THEN "medium"
                 ELSE "low"]

\* a predictAllGoals that skips no goal
IsPredictedAlways(g) == TRUE

\* a predictAllGoals that remembers having been called and predicts nothing
\* the second time
IsPredictedOnce(g) == g.status = "active" /\ last.op = "init"

\* "goals.filter(g => g.status === 'active')"
IsPredicted(g) == g.status = "active"

predictAllGoals(goals_, routine, optional, date) ==
    MapSeq(SelectSeq(goals_, IsPredicted),
           LAMBDA goal : predictGoalCompletion(goal, routine, optional, date))

----------------------------------------------------------------------------
(* The engine's analytics functions (core/engine/analytics.ts).  A row of  *)
(* a breakdown is kept without the name and the colour of its activity    *)
(* type.                                                                   *)

\* minutesByType.get(id) || 0, after the loop over routine.blocks
PlannedMinutesByType(blocks, id) ==
    SumOfDurations(SelectSeq(blocks, LAMBDA block : block.activityTypeId = id))

\* "(plannedMinutes / MINUTES_IN_WEEK) * 100", for minutes >= 0
PercentageOfWeek(minutes) ==
    IF minutes > 0
    THEN DoubleTimes(DoubleQuotient(minutes, MinutesInWeek), 100)
    ELSE DoubleZero

\* rows.sort((a, b) => b[field] - a[field]): a stable sort, each row put
\* behind the rows before it that have at least its minutes
RECURSIVE SortedDescending(_, _)
SortedDescending(rows, field) ==
    IF Len(rows) = 0 THEN <<>>
    ELSE LET front == SortedDescending(SubSeq(rows, 1, Len(rows) - 1), field)
             row == rows[Len(rows)]
         IN SelectSeq(front, LAMBDA r : r[field] >= row[field])
              \o <<row>>
              \o SelectSeq(front, LAMBDA r : r[field] < row[field])

\* a breakdown that keeps the rows of no planned minutes
IsPlannedAlways(b) == TRUE

\* ".filter(b => b.plannedMinutes > 0)"
IsPlanned(b) == b.plannedMinutes > 0

\* types: the ids of the activityTypes argument, in its order
getRoutineBreakdown(routine, types) ==
    LET Row(at) ==
            LET plannedMinutes == PlannedMinutesByType(routine.blocks, at)
            IN [activityTypeId |-> at,
                plannedMinutes |-> plannedMinutes,
                actualMinutes |-> 0,
                percentageOfWeek |-> PercentageOfWeek(plannedMinutes)]
    IN SortedDescending(SelectSeq(MapSeq(types, Row), IsPlanned),
                        "plannedMinutes")

\* new Date('YYYY-MM-DD'): midnight UTC of the day, a date being kept as a
\* count of days
ParseDate(date) == date * TicksPerDay

\* the sum of "(end.getTime() - start.getTime()) / (1000 * 60)" over the
\* entries, kept in ticks: TicksPerMinute ticks are a minute, and a double
\* holds halves of minutes exactly
RECURSIVE SumOfElapsed(_)
SumOfElapsed(entries) ==
    IF Len(entries) = 0 THEN 0
    ELSE SumOfElapsed(SubSeq(entries, 1, Len(entries) - 1))
           + (entries[Len(entries)].endTime - entries[Len(entries)].startTime)

\* ".filter(b => b.actualMinutes > 0)"
IsTracked(b) == b.actualMinutes > 0

\* types: the ids of the activityTypes argument, in its order; timeZone: the
\* time zone of the device, in which setDate counts the days.  actualMinutes
\* is kept in ticks.
getTrackedBreakdown(entries, weekStartDate, types, timeZone) ==
    LET weekStart == ParseDate(weekStartDate)
        weekEnd == AddLocalDays(timeZone, weekStart, 7)
        entriesInWeek ==
            SelectSeq(entries, LAMBDA entry :
                /\ ParseDate(entry.date) >= weekStart
                /\ ParseDate(entry.date) < weekEnd)
        finished == SelectSeq(entriesInWeek,
                              LAMBDA entry : entry.endTime # Undefined)
        Row(at) ==
            LET ticks == SumOfElapsed(SelectSeq(finished,
                            LAMBDA entry : entry.activityTypeId = at))
            IN [activityTypeId |-> at,
                plannedMinutes |-> 0,
                actualMinutes |-> ticks,
                percentageOfWeek |->
                    IF ticks > 0
                    THEN DoubleTimes(
                             DoubleHalf(DoubleQuotient(ticks, MinutesInWeek)),
                             100)
                    ELSE DoubleZero]
    IN SortedDescending(SelectSeq(MapSeq(types, Row), IsTracked),
                        "actualMinutes")

----------------------------------------------------------------------------
(* The block editor (components/routine/BlockEditor.tsx) of the routine    *)
(* screen                                                                  *)

\* the editor's block prop when a new block is added
NoBlock == [id |-> NoId]

\* a save that skips validateRoutineBlock
PassesValidationAlways(newBlock) == TRUE

\* handleSave: "if (!validation.isValid) ... return" lets these through
PassesValidation(newBlock) == validateRoutineBlock(newBlock).isValid

\* handleSave, with the editor's props (routineId, block, dayOfWeek,
\* existingBlocks) and its state (startTime, endTime, selectedActivityId,
\* selectedGoalId) as arguments
handleSave(routineId, block, dayOfWeek, existingBlocks, startTime, endTime, selectedActivityId, selectedGoalId) ==
    LET newBlock == [id |-> block.id,
                     dayOfWeek |-> dayOfWeek,
                     startMinutes |-> startTime,
                     endMinutes |-> endTime,
                     activityTypeId |-> selectedActivityId,
                     goalId |-> selectedGoalId]
        blocksToCheck == SelectSeq(existingBlocks, LAMBDA b : b.id # block.id)
        overlaps == findOverlappingBlocks(blocksToCheck, newBlock)
        isEditing == block.id # NoId
    IN /\ last' = [op |-> "handleSave", startMinutes |-> startTime,
                    endMinutes |-> endTime]
       /\ IF selectedActivityId = NoId THEN UNCHANGED <<routines, nextId>>
          ELSE IF ~PassesValidation(newBlock) THEN UNCHANGED <<routines, nextId>>
          ELSE IF Len(overlaps) > 0 THEN UNCHANGED <<routines, nextId>>
          ELSE IF isEditing
          THEN /\ routines' = RoutinesWithBlockUpdated(routines, routineId,
                      block.id,
                      [startMinutes |-> startTime, endMinutes |-> endTime,
                       activityTypeId |-> selectedActivityId,
                       goalId |-> selectedGoalId])
               /\ UNCHANGED nextId
          ELSE IF routineId \notin Ids(routines)
          THEN UNCHANGED <<routines, nextId>>
          ELSE /\ routines' = RoutinesWithBlock(routines, routineId, newBlock,
                                                nextId.block)
               /\ nextId' = [nextId EXCEPT !.block = @ + 1]
       /\ UNCHANGED <<activityTypes, goals, trackingEntries, activeRoutineId,
                      currentTrackingEntryId, now>>

----------------------------------------------------------------------------
(* The add-goal form of the goals screen (screens/GoalsScreen.tsx)         *)

DigitOf(c) ==
    CASE c = "0" -> 0 [] c = "1" -> 1 [] c = "2" -> 2 [] c = "3" -> 3
      [] c = "4" -> 4 [] c = "5" -> 5 [] c = "6" -> 6 [] c = "7" -> 7
      [] c = "8" -> 8 [] c = "9" -> 9

IsDigit(c) == c \in {"0", "1", "2", "3", "4", "5", "6", "7", "8", "9"}

\* the digits a string starts with
RECURSIVE LeadingDigits(_)
LeadingDigits(str) ==
    IF Len(str) > 0 /\ IsDigit(Head(str))
    THEN <<Head(str)>> \o LeadingDigits(Tail(str))
    ELSE <<>>

RECURSIVE DecimalValue(_)
DecimalValue(digits) ==
    IF Len(digits) = 0 THEN 0
    ELSE 10 * DecimalValue(SubSeq(digits, 1, Len(digits) - 1))
           + DigitOf(digits[Len(digits)])

\* parseInt(str, 10): leading white space, a sign, then digits up to the
\* first other character; NaN when there is no digit
parseInt(str) ==
    LET trimmed == TrimStart(str)
        signed == Len(trimmed) > 0 /\ Head(trimmed) \in {"-", "+"}
        digits == LeadingDigits(IF signed THEN Tail(trimmed) ELSE trimmed)
        magnitude == DecimalValue(digits)
    IN [isNaN |-> Len(digits) = 0,
        value |-> IF signed /\ Head(trimmed) = "-" THEN 0 - magnitude
                  ELSE magnitude]

\* handleAddGoal, with the form's state as arguments; text that parses to
\* NaN is not modelled (the callers do not pass it)
handleAddGoal(newGoalName, newGoalMinutes, selectedActivityId) ==
    IF \/ Len(Trim(newGoalName)) = 0
       \/ selectedActivityId = NoId
       \/ Len(newGoalMinutes) = 0
    THEN UNCHANGED vars
    ELSE addGoal(parseInt(newGoalMinutes).value, selectedActivityId)

----------------------------------------------------------------------------
(* The time utilities (core/utils/time.ts).  A string is a sequence of     *)
(* characters.                                                             *)

DigitCharacters == <<"0", "1", "2", "3", "4", "5", "6", "7", "8", "9">>

\* the decimal digits of n, for n >= 0
RECURSIVE DecimalDigits(_)
DecimalDigits(n) ==
    IF n < 10 THEN <<DigitCharacters[n + 1]>>
    ELSE DecimalDigits(n \div 10) \o <<DigitCharacters[(n % 10) + 1]>>

\* n.toString(), for an integer n
NumberToString(n) ==
    IF n < 0 THEN <<"-">> \o DecimalDigits(0 - n) ELSE DecimalDigits(n)

\* a padStart that pads nothing
padNothing(str, targetLength, padString) == str

\* str.padStart(targetLength, padString), padString being one character
padStart(str, targetLength, padString) ==
    IF Len(str) >= targetLength THEN str
    ELSE [i \in 1..(targetLength - Len(str)) |-> padString] \o str

\* a % b of JavaScript, for b > 0: the sign is that of a
Remainder(a, b) == IF a >= 0 THEN a % b ELSE 0 - ((0 - a) % b)

minutesToTimeString(minutes) ==
    LET hours == minutes \div 60
        mins == Remainder(minutes, 60)
    IN padStart(NumberToString(hours), 2, "0") \o <<":">>
         \o padStart(NumberToString(mins), 2, "0")

\* str.split(separator), separator being one character
RECURSIVE Split(_, _)
Split(str, separator) ==
    IF \A i \in 1..Len(str) : str[i] # separator THEN <<str>>
    ELSE LET at == CHOOSE i \in 1..Len(str) :
                       /\ str[i] = separator
                       /\ \A j \in 1..(i - 1) : str[j] # separator
         IN <<SubSeq(str, 1, at - 1)>>
              \o Split(SubSeq(str, at + 1, Len(str)), separator)

\* Number(str) for a string of digits, signs, spaces and colons: 0 for white
\* space alone, the value of an optionally signed string of digits, else NaN
Number(str) ==
    LET trimmed == Trim(str)
        signed == Len(trimmed) > 0 /\ Head(trimmed) \in {"-", "+"}
        digits == IF signed THEN Tail(trimmed) ELSE trimmed
        isNumber == IF Len(trimmed) = 0 THEN TRUE
                    ELSE /\ Len(digits) > 0
                         /\ \A i \in 1..Len(digits) : IsDigit(digits[i])
        magnitude == IF isNumber THEN DecimalValue(digits) ELSE 0
    IN [isNaN |-> ~isNumber,
        value |-> IF signed /\ Head(trimmed) = "-" THEN 0 - magnitude
                  ELSE magnitude]

\* "const [hours, minutes] = timeString.split(':').map(Number)": a part that
\* is missing is undefined, and the sum is then NaN
timeStringToMinutes(timeString) ==
    LET parts == Split(timeString, ":")
        hours == Number(parts[1])
        minutes == IF Len(parts) >= 2 THEN Number(parts[2])
                   ELSE [isNaN |-> TRUE, value |-> 0]
    IN [isNaN |-> hours.isNaN \/ minutes.isNaN,
        value |-> hours.value * 60 + minutes.value]

\* a formatDuration that shows the hours from the first hour on only
IsBelowAnHourOrExactly(totalMinutes) == totalMinutes <= 60

\* "if (totalMinutes < 60)"
IsBelowAnHour(totalMinutes) == totalMinutes < 60

\* formatDuration, its argument (a number of minutes) kept in ticks
formatDuration(minutes) ==
    LET totalMinutes == RoundMinutes(minutes)
        hours == totalMinutes \div 60
        remainingMinutes == Remainder(totalMinutes, 60)
    IN IF IsBelowAnHour(totalMinutes)
       THEN NumberToString(totalMinutes) \o <<"m">>
       ELSE IF remainingMinutes = 0
       THEN NumberToString(hours) \o <<"h">>
       ELSE NumberToString(hours) \o <<"h", " ">>
              \o NumberToString(remainingMinutes) \o <<"m">>

----------------------------------------------------------------------------
(* The clock *)

\* time passes between two calls
Tick ==
    /\ now < MaxTime
    /\ now' = now + 1
    /\ last' = [op |-> "tick"]
    /\ UNCHANGED <<activityTypes, goals, routines, trackingEntries,
                   activeRoutineId, currentTrackingEntryId, nextId>>

----------------------------------------------------------------------------
(* The calls a run makes.  A, G, R, B and E are the activity type, goal,   *)
(* routine, block and entry ids the run may use; a call that would log     *)
(* past MaxLogged minutes is not made.                                     *)

Times == 0..MaxTime
OptTimes == Times \cup {Undefined}
Estimates == 1..MaxEstimate
Minutes == 0..MaxLogged
Refs(S) == {NoId} \cup S

\* the blocks the callers add: a morning block and one that wraps past
\* midnight, on Sunday or Saturday
BlockTimes == {<<540, 600>>, <<1380, 60>>}
BlockDays == {0, 6}

Init == StoreInit /\ EngineIdle

AddActivityType(A) == nextId.activity \in A /\ addActivityType

DeleteActivityType(A) == \E a \in A : deleteActivityType(a)

AddGoal(G, A) ==
    /\ nextId.goal \in G
    /\ \E m \in Estimates, a \in A : addGoal(m, a)

UpdateGoal(G) ==
    \E g \in G :
        \/ \E m \in Estimates : updateGoal(g, [estimatedMinutes |-> m])
        \/ \E m \in Minutes : updateGoal(g, [loggedMinutes |-> m])
        \/ \E s \in Statuses : updateGoal(g, [status |-> s])

DeleteGoal(G) == \E g \in G : deleteGoal(g)

LogMinutesToGoal(G) ==
    \E g \in G, m \in Minutes : logMinutesToGoal(g, m) /\ WithinCap(goals')

SetGoalStatus(G) == \E g \in G, s \in Statuses : setGoalStatus(g, s)

AddRoutine(R) == nextId.routine \in R /\ addRoutine

UpdateRoutine(R) == \E r \in R, b \in BOOLEAN : updateRoutine(r, [isActive |-> b])

DeleteRoutine(R) == \E r \in R : deleteRoutine(r)

SetActiveRoutine(R) == \E r \in Refs(R) : setActiveRoutine(r)

DuplicateRoutine(R, B) ==
    /\ nextId.routine \in R
    /\ \E r \in R :
           /\ duplicateRoutine(r)
           /\ nextId'.block - 1 \in Refs(B)

InitializeDefaults(R) == nextId.routine \in R /\ initializeDefaults

AddRoutineBlock(R, B, G, A) ==
    /\ nextId.block \in B
    /\ \E r \in R, d \in BlockDays, t \in BlockTimes, a \in A, g \in Refs(G) :
           addRoutineBlock(r, [dayOfWeek |-> d, startMinutes |-> t[1],
                               endMinutes |-> t[2], activityTypeId |-> a,
                               goalId |-> g])

DeleteRoutineBlock(R, B) == \E r \in R, b \in B : deleteRoutineBlock(r, b)

\* the routine screen copies the selected day to one target day
CopyDayBlocks(R, B) ==
    \E r \in R, fromDay \in BlockDays, toDay \in BlockDays :
        /\ copyDayBlocks(r, fromDay, <<toDay>>)
        /\ nextId'.block - 1 \in Refs(B)

\* the store's copyDayBlocks with any list of up to two target days
CopyDayBlocksTo(R, B) ==
    \E r \in R, fromDay \in BlockDays,
       toDays \in UNION {[1..k -> BlockDays] : k \in 0..2} :
        /\ copyDayBlocks(r, fromDay, toDays)
        /\ nextId'.block - 1 \in Refs(B)

\* times the editor's pickers can hold (0 to 1440, start and end free)
EditorTimes == {0, 60, MinutesInDay}

\* the routine screen shows the editor for the active routine and the
\* selected day, to add a block or to edit one of that day's blocks
HandleSave(B, G, A) ==
    /\ activeRoutineId \in Ids(routines)
    /\ LET activeRoutine == FindById(routines, activeRoutineId)
       IN \E selectedDay \in BlockDays :
            LET dayBlocks == SelectSeq(activeRoutine.blocks,
                                 LAMBDA b : b.dayOfWeek = selectedDay)
            IN \E i \in 0..Len(dayBlocks), startTime \in EditorTimes,
                  endTime \in EditorTimes, a \in Refs(A), g \in Refs(G) :
                 /\ i = 0 => nextId.block \in B
                 /\ handleSave(activeRoutine.id,
                               IF i = 0 THEN NoBlock ELSE dayBlocks[i],
                               selectedDay, dayBlocks, startTime, endTime, a, g)

StartTracking(G, E, A) ==
    /\ nextId.entry \in E
    /\ \E g \in Refs(G), a \in A : startTracking(a, g) /\ WithinCap(goals')

StopTracking(E) == \E e \in Refs(E) : stopTracking(e) /\ WithinCap(goals')

AddCompletedEntry(G, E, A) ==
    /\ nextId.entry \in E
    /\ \E s \in Times, e \in OptTimes, g \in Refs(G), a \in A :
           addCompletedEntry(s, e, a, g) /\ WithinCap(goals')

UpdateTrackingEntry(G, E) ==
    \E e \in E :
        \/ \E t \in Times : updateTrackingEntry(e, [startTime |-> t])
        \/ \E t \in OptTimes : updateTrackingEntry(e, [endTime |-> t])
        \/ \E g \in Refs(G) : updateTrackingEntry(e, [goalId |-> g])

DeleteTrackingEntry(E) == \E e \in E : deleteTrackingEntry(e)

EngineUnused == UNCHANGED <<input, output>>

----------------------------------------------------------------------------
(* Spec: two goals fed by time tracking (startTracking, stopTracking,      *)
(* addCompletedEntry) while the clock runs                                 *)

Next ==
    /\ EngineUnused
    /\ \/ AddGoal({1, 2}, {1})
       \/ StartTracking({1, 2}, {1, 2}, {1})
       \/ StopTracking({1, 2})
       \/ AddCompletedEntry({1, 2}, {1, 2}, {1})
       \/ Tick

Spec == Init /\ [][Next]_vars

(* SpecTracking: every tracking action of the store, on two entries and    *)
(* one goal                                                                *)

NextTracking ==
    /\ EngineUnused
    /\ \/ AddGoal({1}, {1})
       \/ StartTracking({1}, {1, 2}, {1})
       \/ StopTracking({1, 2})
       \/ AddCompletedEntry({1}, {1, 2}, {1})
       \/ UpdateTrackingEntry({1}, {1, 2})
       \/ DeleteTrackingEntry({1, 2})
       \/ Tick

SpecTracking == Init /\ [][NextTracking]_vars

(* SpecGoals: every goal action of the store on one goal, and the          *)
(* tracking actions that log minutes, on one entry                         *)

NextGoals ==
    /\ EngineUnused
    /\ \/ AddGoal({1}, {1})
       \/ UpdateGoal({1})
       \/ LogMinutesToGoal({1})
       \/ SetGoalStatus({1})
       \/ StartTracking({1}, {1}, {1})
       \/ StopTracking({1})
       \/ AddCompletedEntry({1}, {1}, {1})
       \/ Tick

SpecGoals == Init /\ [][NextGoals]_vars

(* SpecRoutines: every routine action of the store, on three routines      *)

NextRoutines ==
    /\ EngineUnused
    /\ \/ AddRoutine({1, 2, 3})
       \/ UpdateRoutine({1, 2, 3})
       \/ DeleteRoutine({1, 2, 3})
       \/ SetActiveRoutine({1, 2, 3})
       \/ DuplicateRoutine({1, 2, 3}, {})
       \/ InitializeDefaults({1, 2, 3})

SpecRoutines == Init /\ [][NextRoutines]_vars

(* SpecBlocks: two goals and the blocks of two routines that refer to them *)

NextBlocks ==
    /\ EngineUnused
    /\ \/ AddGoal({1, 2}, {1})
       \/ DeleteGoal({1, 2})
       \/ AddRoutine({1, 2})
       \/ AddRoutineBlock({1, 2}, {1, 2}, {1, 2}, {1})
       \/ DeleteRoutineBlock({1, 2}, {1, 2})

SpecBlocks == Init /\ [][NextBlocks]_vars

(* SpecTypes: two activity types and a goal, a block and a tracking entry  *)
(* that may refer to them                                                  *)

NextTypes ==
    /\ EngineUnused
    /\ \/ AddActivityType({2})
       \/ DeleteActivityType({1, 2})
       \/ AddGoal({1}, {1, 2})
       \/ DeleteGoal({1})
       \/ AddRoutine({1})
       \/ AddRoutineBlock({1}, {1}, {1}, {1, 2})
       \/ DeleteRoutineBlock({1}, {1})
       \/ StartTracking({1}, {1}, {1, 2})
       \/ StopTracking({1})
       \/ DeleteTrackingEntry({1})

SpecTypes == Init /\ [][NextTypes]_vars

(* SpecEditor: the active routine's blocks as the block editor and the     *)
(* routine screen write them, with a copy of the routine and a goal        *)

NextEditor ==
    /\ EngineUnused
    /\ \/ AddGoal({1}, {1})
       \/ DeleteGoal({1})
       \/ AddRoutine({1})
       \/ SetActiveRoutine({1})
       \/ HandleSave({1, 2}, {1}, {1})
       \/ CopyDayBlocks({1}, {1, 2, 3})
       \/ DuplicateRoutine({1, 2}, {1, 2, 3})
       \/ DeleteRoutineBlock({1, 2}, {1, 2, 3})

SpecEditor == Init /\ [][NextEditor]_vars

(* SpecCopy: the blocks of two routines, added by addRoutineBlock and      *)
(* copied from day to days by copyDayBlocks, which is also called for a    *)
(* routine that does not exist                                             *)

NextCopy ==
    /\ EngineUnused
    /\ \/ AddRoutine({1, 2})
       \/ AddRoutineBlock({1, 2}, {1, 2}, {}, {1})
       \/ CopyDayBlocksTo({1, 2, 3}, 1..4)

SpecCopy == Init /\ [][NextCopy]_vars

----------------------------------------------------------------------------
(* The engine functions, each applied once to an argument drawn at the     *)
(* start                                                                   *)

StoreUnused == UNCHANGED <<activityTypes, goals, routines, trackingEntries,
                           activeRoutineId, currentTrackingEntryId, nextId, now>>

Restrict(obj, D) == [f \in D |-> obj[f]]

SeqsUpTo(S, n) == UNION {[1..k -> S] : k \in 0..n}

(* SpecOverlap: findOverlappingBlocks on up to MaxBlocks stored blocks     *)
(* (distinct ids, start before end) and a candidate that is new or is the  *)
(* first stored block being edited                                         *)

OverlapDays == {1, 2}

Spans == {t \in (0..MaxMinute) \X (0..MaxMinute) : t[1] < t[2]}

BlockShapes == [dayOfWeek : OverlapDays, span : Spans]

BlockOf(id, shape) ==
    [id |-> id, dayOfWeek |-> shape.dayOfWeek,
     startMinutes |-> shape.span[1], endMinutes |-> shape.span[2]]

OverlapInputs ==
    {[blocks |-> [i \in 1..Len(shapes) |-> BlockOf(i, shapes[i])],
      newBlock |-> BlockOf(id, shape)] :
        shapes \in SeqsUpTo(BlockShapes, MaxBlocks),
        id \in {1, MaxBlocks + 1},
        shape \in BlockShapes}

InitOverlap ==
    /\ StoreInit
    /\ input \in OverlapInputs
    /\ output = <<>>

FindOverlappingBlocks ==
    /\ last.op = "init"
    /\ output' = findOverlappingBlocks(input.blocks, input.newBlock)
    /\ last' = [op |-> "findOverlappingBlocks"]
    /\ UNCHANGED input
    /\ StoreUnused

NextOverlap == FindOverlappingBlocks

SpecOverlap == InitOverlap /\ [][NextOverlap]_vars

(* SpecValidate: validateRoutineBlock and validateGoal on partial records  *)

MinuteSamples == {0 - 1, 0, MinutesInDay - 1, MinutesInDay}
DaySamples == {0 - 1, 0, LastDayOfWeek, LastDayOfWeek + 1}
TypeSamples == {NoId, 1}
EstimateSamples == {0 - 1, 0, 1, 2}
Names == SeqsUpTo({" ", "a"}, MaxNameLen)

BlockFields == {"startMinutes", "endMinutes", "dayOfWeek", "activityTypeId"}
GoalFields == {"name", "estimatedMinutes", "activityTypeId"}

PartialBlocks ==
    {Restrict(b, D) :
        b \in [startMinutes : MinuteSamples, endMinutes : MinuteSamples,
               dayOfWeek : DaySamples, activityTypeId : TypeSamples],
        D \in SUBSET BlockFields}

PartialGoals ==
    {Restrict(g, D) :
        g \in [name : Names, estimatedMinutes : EstimateSamples,
               activityTypeId : TypeSamples],
        D \in SUBSET GoalFields}

InitValidate ==
    /\ StoreInit
    /\ \/ \E b \in PartialBlocks : input = [kind |-> "block", value |-> b]
       \/ \E g \in PartialGoals : input = [kind |-> "goal", value |-> g]
    /\ output = <<>>

ValidateRoutineBlock ==
    /\ last.op = "init"
    /\ input.kind = "block"
    /\ output' = validateRoutineBlock(input.value)
    /\ last' = [op |-> "validateRoutineBlock"]
    /\ UNCHANGED input
    /\ StoreUnused

ValidateGoal ==
    /\ last.op = "init"
    /\ input.kind = "goal"
    /\ output' = validateGoal(input.value)
    /\ last' = [op |-> "validateGoal"]
    /\ UNCHANGED input
    /\ StoreUnused

NextValidate == ValidateRoutineBlock \/ ValidateGoal

SpecValidate == InitValidate /\ [][NextValidate]_vars

(* SpecWeekly: getWeeklyMinutesForActivityType on a routine of up to       *)
(* MaxBlocks blocks of two activity types: a morning block, one that wraps *)
(* past midnight, one that fills the day, and one of no duration (which    *)
(* the store accepts from addRoutineBlock, though the editor refuses it)   *)

PlanSpans == {<<540, 600>>, <<1380, 60>>, <<0, 1439>>, <<540, 540>>}

PlanTypes == {1, 2}

PlanBlocks ==
    {[dayOfWeek |-> 1, startMinutes |-> t[1], endMinutes |-> t[2],
      activityTypeId |-> a] : t \in PlanSpans, a \in PlanTypes}

\* routines whose blocks carry the ids 1, 2, ... in order
PlanRoutines ==
    {[id |-> 1, isActive |-> TRUE,
      blocks |-> [i \in 1..Len(bs) |->
                     [id |-> i, dayOfWeek |-> bs[i].dayOfWeek,
                      startMinutes |-> bs[i].startMinutes,
                      endMinutes |-> bs[i].endMinutes,
                      activityTypeId |-> bs[i].activityTypeId,
                      goalId |-> NoId]]] :
        bs \in SeqsUpTo(PlanBlocks, MaxBlocks)}

InitWeekly ==
    /\ StoreInit
    /\ input \in [routine : PlanRoutines, activityTypeId : PlanTypes]
    /\ output = <<>>

GetWeeklyMinutesForActivityType ==
    /\ last.op = "init"
    /\ output' = getWeeklyMinutesForActivityType(input.routine,
                                                 input.activityTypeId)
    /\ last' = [op |-> "getWeeklyMinutesForActivityType"]
    /\ UNCHANGED input
    /\ StoreUnused

NextWeekly == GetWeeklyMinutesForActivityType

SpecWeekly == InitWeekly /\ [][NextWeekly]_vars

(* SpecPredict: predictGoalCompletion on a goal of activity type 1, a      *)
(* routine of up to MaxBlocks blocks of two activity types, a tracking     *)
(* history (or none) and a date                                            *)

\* blocks of 300, 420 and (past midnight) 120 minutes
PredictSpans == {<<540, 840>>, <<0, 420>>, <<1380, 60>>}

PredictBlocks ==
    {[dayOfWeek |-> 1, startMinutes |-> t[1], endMinutes |-> t[2],
      activityTypeId |-> a] : t \in PredictSpans, a \in PlanTypes}

RoutineOf(bs) ==
    [id |-> 1, isActive |-> TRUE,
     blocks |-> [i \in 1..Len(bs) |->
                    [id |-> i, dayOfWeek |-> bs[i].dayOfWeek,
                     startMinutes |-> bs[i].startMinutes,
                     endMinutes |-> bs[i].endMinutes,
                     activityTypeId |-> bs[i].activityTypeId,
                     goalId |-> NoId]]]

PredictRoutines == {RoutineOf(bs) : bs \in SeqsUpTo(PredictBlocks, MaxBlocks)}

\* estimatedMinutes and loggedMinutes: nothing logged, just done, overdone,
\* and 29 hours to go
PredictProgress == {<<600, 0>>, <<600, 600>>, <<600, 700>>, <<1740, 0>>}

GoalOf(id, progress, status) ==
    [id |-> id, estimatedMinutes |-> progress[1],
     loggedMinutes |-> progress[2], status |-> status, activityTypeId |-> 1]

\* finished entries: first k of activity type a, then m of activity type b
EntriesOf(k, a, m, b) ==
    [i \in 1..(k + m) |->
        [id |-> i, startTime |-> 0, endTime |-> TicksPerHour,
         activityTypeId |-> IF i <= k THEN a ELSE b, goalId |-> NoId]]

\* histories around the two thresholds, alone and among 8 other entries
PredictHistories ==
    LET near == {0, MediumConfidenceEntries - 1, MediumConfidenceEntries,
                 HighConfidenceEntries - 1, HighConfidenceEntries}
    IN {EntriesOf(k, 1, m, 2) : k \in near, m \in {0, 8}}
         \cup {EntriesOf(m, 2, k, 1) : k \in near, m \in {0, 8}}

\* trackingHistory passed or left out
PredictOptionals ==
    {[trackingHistory |-> h] : h \in PredictHistories} \cup {<<>>}

\* the device's time zone: UTC, or one hour ahead with summer time from
\* 01:00 UTC of day 7 on
PredictZones ==
    {[standardOffset |-> 0, hasSummerTime |-> FALSE, summerFrom |-> 0,
      summerUntil |-> 0],
     [standardOffset |-> TicksPerHour, hasSummerTime |-> TRUE,
      summerFrom |-> 7 * TicksPerDay + TicksPerHour,
      summerUntil |-> 200 * TicksPerDay]}

\* half past midnight and noon, UTC, of day 0
PredictInstants == {TicksPerHour \div 2, 12 * TicksPerHour}

InitPredict ==
    /\ \E t \in PredictInstants : StoreInitAt(t)
    /\ input \in [goal : {GoalOf(1, p, "active") : p \in PredictProgress},
                  routine : PredictRoutines,
                  optional : PredictOptionals,
                  timeZone : PredictZones]
    /\ output = <<>>

PredictGoalCompletion ==
    /\ last.op = "init"
    /\ output' = predictGoalCompletion(input.goal, input.routine,
                     input.optional,
                     [now |-> now, timeZone |-> input.timeZone])
    /\ last' = [op |-> "predictGoalCompletion"]
    /\ UNCHANGED input
    /\ StoreUnused

NextPredict == PredictGoalCompletion

SpecPredict == InitPredict /\ [][NextPredict]_vars

(* SpecPredictAll: predictAllGoals, called again and again on one list of  *)
(* goals while the clock of the device moves on                            *)

\* lists of up to MaxGoals goals with distinct ids, in any order and of any
\* status; goal 1 has 600 minutes left, goal 2 none, goal 3 has 1740
GoalLists ==
    LET progress == [id \in 1..MaxGoals |->
                        IF id = 1 THEN <<600, 0>>
                        ELSE IF id = 2 THEN <<600, 600>>
                        ELSE <<1740, 0>>]
    IN  UNION {{[i \in 1..n |-> GoalOf(ids[i], progress[ids[i]], st[i])] :
                  ids \in {f \in [1..n -> 1..MaxGoals] :
                              \A i, j \in 1..n : f[i] = f[j] => i = j},
                  st \in [1..n -> Statuses]} : n \in 0..MaxGoals}

\* the last half-minute of day 0 and the first instant of day 1, UTC
ClockReadings == {TicksPerDay - 1, TicksPerDay}

InitPredictAll ==
    /\ \E t \in ClockReadings : StoreInitAt(t)
    /\ input \in [goals : GoalLists,
                  routine : {RoutineOf(<<>>),
                             RoutineOf(<<[dayOfWeek |-> 1, startMinutes |-> 0,
                                          endMinutes |-> 420,
                                          activityTypeId |-> 1]>>)},
                  optional : {<<>>, [trackingHistory |->
                                 EntriesOf(HighConfidenceEntries, 1, 0, 2)]},
                  timeZone : {[standardOffset |-> 0, hasSummerTime |-> FALSE,
                               summerFrom |-> 0, summerUntil |-> 0]}]
    /\ output = <<>>

\* whether predictAllGoals has been called before
CalledBefore ==
    \/ last.op = "predictAllGoals"
    \/ last.op = "timePasses" /\ last.calledBefore

\* a call; last keeps the previous call's output and the instant of this one
PredictAllGoals ==
    /\ output' = predictAllGoals(input.goals, input.routine, input.optional,
                     [now |-> now, timeZone |-> input.timeZone])
    /\ last' = [op |-> "predictAllGoals", calledBefore |-> CalledBefore,
                at |-> now,
                calledAt |-> IF CalledBefore THEN last.at ELSE now]
    /\ UNCHANGED input
    /\ StoreUnused

\* the clock of the device moves on to a later reading
TimePasses ==
    /\ \E t \in ClockReadings : t > now /\ now' = t
    /\ last' = [op |-> "timePasses", calledBefore |-> CalledBefore,
                at |-> IF CalledBefore THEN last.at ELSE now]
    /\ UNCHANGED <<activityTypes, goals, routines, trackingEntries,
                   activeRoutineId, currentTrackingEntryId, nextId,
                   input, output>>

NextPredictAll == PredictAllGoals \/ TimePasses

SpecPredictAll == InitPredictAll /\ [][NextPredictAll]_vars

(* SpecPlanned: getRoutineBreakdown on a routine of up to MaxBlocks blocks *)
(* and a list of activity types                                            *)

\* lists of distinct activity types among 1, 2 and 3, in any order
TypeLists ==
    {ts \in SeqsUpTo(1..3, 3) : \A i, j \in 1..Len(ts) : ts[i] = ts[j] => i = j}

InitPlanned ==
    /\ StoreInit
    /\ input \in [routine : PlanRoutines, activityTypes : TypeLists]
    /\ output = <<>>

GetRoutineBreakdown ==
    /\ last.op = "init"
    /\ output' = getRoutineBreakdown(input.routine, input.activityTypes)
    /\ last' = [op |-> "getRoutineBreakdown"]
    /\ UNCHANGED input
    /\ StoreUnused

NextPlanned == GetRoutineBreakdown

SpecPlanned == InitPlanned /\ [][NextPlanned]_vars

(* SpecTracked: getTrackedBreakdown on up to MaxEntries tracking entries,  *)
(* for the week that starts on day 1                                       *)

\* entries of the day before the week, of its first day, of the day after
\* its last and of the day after that; of 60 minutes, of 30, and unfinished
WeekEntries ==
    {[date |-> d, startTime |-> 0, endTime |-> e, activityTypeId |-> a] :
        d \in {0, 1, 7, 8},
        e \in {60 * TicksPerMinute, 30 * TicksPerMinute, Undefined},
        a \in PlanTypes}

\* UTC; one hour ahead of UTC with summer time that begins in the week; the
\* same with summer time that ends in the week
WeekZones ==
    PredictZones \cup
        {[standardOffset |-> TicksPerHour, hasSummerTime |-> TRUE,
          summerFrom |-> 0, summerUntil |-> 4 * TicksPerDay + TicksPerHour]}

InitTracked ==
    /\ StoreInit
    /\ input \in [trackingEntries :
                      {[i \in 1..Len(es) |->
                           [id |-> i, date |-> es[i].date,
                            startTime |-> es[i].startTime,
                            endTime |-> es[i].endTime,
                            activityTypeId |-> es[i].activityTypeId,
                            goalId |-> NoId]] :
                          es \in SeqsUpTo(WeekEntries, MaxEntries)},
                  weekStartDate : {1},
                  activityTypes : {<<1, 2>>, <<2, 1>>, <<1>>},
                  timeZone : WeekZones]
    /\ output = <<>>

GetTrackedBreakdown ==
    /\ last.op = "init"
    /\ output' = getTrackedBreakdown(input.trackingEntries,
                     input.weekStartDate, input.activityTypes, input.timeZone)
    /\ last' = [op |-> "getTrackedBreakdown"]
    /\ UNCHANGED input
    /\ StoreUnused

NextTracked == GetTrackedBreakdown

SpecTracked == InitTracked /\ [][NextTracked]_vars

\* what can be typed in the form's minutes field: digits and a minus sign
MinutesTexts == SeqsUpTo({"0", "1", "-"}, MaxTextLen)

HandleAddGoal(G, A) ==
    /\ nextId.goal \in G
    /\ \E name \in Names, text \in MinutesTexts, a \in Refs(A) :
           /\ ~parseInt(text).isNaN
           /\ handleAddGoal(name, text, a)

(* SpecGoalForm: the goals the add-goal form adds, and their deletion      *)

NextGoalForm ==
    /\ EngineUnused
    /\ \/ HandleAddGoal({1, 2, 3}, {1})
       \/ DeleteGoal({1, 2, 3})

SpecGoalForm == Init /\ [][NextGoalForm]_vars

(* SpecTime: minutesToTimeString on a minute of the day (or just outside  *)
(* it), then timeStringToMinutes on the string it gave                     *)

TimeInputs == (0 - 2)..(MinutesInDay + 1)

InitTime ==
    /\ StoreInit
    /\ input \in TimeInputs
    /\ output = <<>>

MinutesToTimeString ==
    /\ last.op = "init"
    /\ output' = [timeString |-> minutesToTimeString(input)]
    /\ last' = [op |-> "minutesToTimeString"]
    /\ UNCHANGED input
    /\ StoreUnused

TimeStringToMinutes ==
    /\ last.op = "minutesToTimeString"
    /\ output' = [timeString |-> output.timeString,
                  minutes |-> timeStringToMinutes(output.timeString)]
    /\ last' = [op |-> "timeStringToMinutes"]
    /\ UNCHANGED input
    /\ StoreUnused

NextTime == MinutesToTimeString \/ TimeStringToMinutes

SpecTime == InitTime /\ [][NextTime]_vars

(* SpecDuration: formatDuration on a duration of up to MaxDuration ticks   *)

InitDuration ==
    /\ StoreInit
    /\ input \in 0..MaxDuration
    /\ output = <<>>

FormatDuration ==
    /\ last.op = "init"
    /\ output' = formatDuration(input)
    /\ last' = [op |-> "formatDuration"]
    /\ UNCHANGED input
    /\ StoreUnused

NextDuration == FormatDuration

SpecDuration == InitDuration /\ [][NextDuration]_vars

----------------------------------------------------------------------------
(* Claims about tracking and goals *)

OpenEntries ==
    {i \in 1..Len(trackingEntries) : trackingEntries[i].endTime = Undefined}

\* C1: in every state reachable through the tracking actions, at most one
\* tracking entry has an absent endTime.
C1_AtMostOneOpenEntry == Cardinality(OpenEntries) <= 1

LoggingOps == {"logMinutesToGoal", "startTracking", "stopTracking", "addCompletedEntry"}

\* C3 as stated: in every reachable state, every goal whose loggedMinutes
\* is at least its estimatedMinutes has status 'completed'.
C3_ReachedMeansCompleted ==
    \A i \in 1..Len(goals) :
        goals[i].loggedMinutes >= goals[i].estimatedMinutes
            => goals[i].status = "completed"

\* C3, amended: a call that logs minutes to a goal (logMinutesToGoal,
\* directly or from stopTracking, startTracking or addCompletedEntry)
\* leaves that goal 'completed' when its new loggedMinutes is at least its
\* estimatedMinutes.
C3_LoggingCompletes ==
    [][last'.op \in LoggingOps =>
        \A i \in 1..Len(goals) :
            (/\ goals'[i].loggedMinutes > goals[i].loggedMinutes
             /\ goals'[i].loggedMinutes >= goals'[i].estimatedMinutes)
                => goals'[i].status = "completed"]_vars

\* a goal completed by minutes logged when tracking stopped, hitting the
\* estimate exactly
C3_Witness ==
    /\ last.op = "stopTracking"
    /\ \E i \in 1..Len(goals) :
           /\ goals[i].loggedMinutes = goals[i].estimatedMinutes
           /\ goals[i].status = "completed"
           /\ \E k \in 1..Len(trackingEntries) :
                  /\ trackingEntries[k].goalId = goals[i].id
                  /\ trackingEntries[k].endTime = now
                  /\ trackingEntries[k].startTime < now

\* d is dt ticks in whole minutes, rounded to the nearest (half up)
IsRounded(d, dt) ==
    /\ 2 * TicksPerMinute * d - TicksPerMinute <= 2 * dt
    /\ 2 * dt < 2 * TicksPerMinute * d + TicksPerMinute

\* the entry at index i was in progress and is ended by this step
EndedHere(i) ==
    /\ trackingEntries[i].endTime = Undefined
    /\ trackingEntries'[i].endTime # Undefined

GrowthOf(j) == goals'[j].loggedMinutes - goals[j].loggedMinutes

TrackingOps == {"startTracking", "stopTracking", "addCompletedEntry"}

\* C5: a goal created by addGoal starts with loggedMinutes = 0, and no
\* tracking action (startTracking, stopTracking, addCompletedEntry) lowers
\* any goal's loggedMinutes.
C5_LoggedMinutesMonotone ==
    [][/\ last'.op = "addGoal" =>
            /\ Len(goals') = Len(goals) + 1
            /\ goals'[Len(goals')].loggedMinutes = 0
            /\ \A i \in 1..Len(goals) : goals'[i] = goals[i]
       /\ last'.op \in TrackingOps =>
            /\ Len(goals') = Len(goals)
            /\ \A i \in 1..Len(goals) :
                   goals'[i].loggedMinutes >= goals[i].loggedMinutes]_vars

\* stopTracking has just ended an entry whose startTime lies after the
\* stop, and its goal has kept the minutes logged before
C5_Witness ==
    /\ last.op = "stopTracking"
    /\ \E k \in 1..Len(trackingEntries), j \in 1..Len(goals) :
           /\ trackingEntries[k].endTime = now
           /\ trackingEntries[k].startTime > now + 1
           /\ trackingEntries[k].goalId = goals[j].id
           /\ goals[j].loggedMinutes > 0

----------------------------------------------------------------------------
(* Claims about routines, blocks and activity types *)

ActiveRoutines == {i \in 1..Len(routines) : routines[i].isActive}

\* C2: in every state reachable through the routine actions, at most one
\* routine has isActive = true.
C2_AtMostOneActiveRoutine == Cardinality(ActiveRoutines) <= 1

\* C6: deleteGoal(id) removes the goal and clears goalId on every block of
\* every routine that referenced it; it deletes no block, and every other
\* field of every block and every block not referencing the goal stay
\* unchanged.
C6_DeleteGoalClearsReferences ==
    [][last'.op = "deleteGoal" =>
        LET id == last'.id
        IN /\ goals' = SelectSeq(goals, LAMBDA g : g.id # id)
           /\ id \notin Ids(goals')
           /\ Len(routines') = Len(routines)
           /\ \A r \in 1..Len(routines) :
                  /\ routines'[r].id = routines[r].id
                  /\ routines'[r].isActive = routines[r].isActive
                  /\ Len(routines'[r].blocks) = Len(routines[r].blocks)
                  /\ \A k \in 1..Len(routines[r].blocks) :
                         LET old == routines[r].blocks[k]
                             new == routines'[r].blocks[k]
                         IN /\ new.id = old.id
                            /\ new.dayOfWeek = old.dayOfWeek
                            /\ new.startMinutes = old.startMinutes
                            /\ new.endMinutes = old.endMinutes
                            /\ new.activityTypeId = old.activityTypeId
                            /\ new.goalId = IF old.goalId = id THEN NoId
                                            ELSE old.goalId]_vars

\* deleteGoal has just removed a goal that a block referenced: the block
\* is still there without a goalId, next to a block that refers to the
\* other goal
C6_Witness ==
    /\ last.op = "deleteGoal"
    /\ last.cleared
    /\ last.id \notin Ids(goals)
    /\ \E r \in 1..Len(routines) :
           /\ Len(routines[r].blocks) = 2
           /\ \E k \in 1..2 :
                  /\ routines[r].blocks[k].goalId = NoId
                  /\ routines[r].blocks[3 - k].goalId \in Ids(goals)

TypeIds(s) == {s[i] : i \in 1..Len(s)}

\* the activity type a is referenced by a goal, a block or a tracking entry
Referenced(a) ==
    \/ \E i \in 1..Len(goals) : goals[i].activityTypeId = a
    \/ \E r \in 1..Len(routines) : \E k \in 1..Len(routines[r].blocks) :
           routines[r].blocks[k].activityTypeId = a
    \/ \E i \in 1..Len(trackingEntries) : trackingEntries[i].activityTypeId = a

\* C7: deleteActivityType(id) removes the activity type if and only if no
\* goal, no block of any routine and no tracking entry references it; when
\* it is referenced, the call leaves the whole store state unchanged.
C7_DeleteOnlyUnreferencedType ==
    [][last'.op = "deleteActivityType" =>
        LET id == last'.id
        IN /\ UNCHANGED <<goals, routines, trackingEntries, activeRoutineId,
                          currentTrackingEntryId>>
           /\ Referenced(id) => activityTypes' = activityTypes
           /\ ~Referenced(id) =>
                  /\ id \notin TypeIds(activityTypes')
                  /\ activityTypes' = SelectSeq(activityTypes, LAMBDA at : at # id)]_vars

\* deleteActivityType has just been refused for a type that only a
\* tracking entry refers to
C7_Witness ==
    /\ last.op = "deleteActivityType"
    /\ last.inUse
    /\ last.id \in TypeIds(activityTypes)
    /\ \A i \in 1..Len(goals) : goals[i].activityTypeId # last.id
    /\ \A r \in 1..Len(routines) : \A k \in 1..Len(routines[r].blocks) :
           routines[r].blocks[k].activityTypeId # last.id
    /\ \E i \in 1..Len(trackingEntries) : trackingEntries[i].activityTypeId = last.id

----------------------------------------------------------------------------
(* Claims about the validation functions *)

\* the minutes a block with start before end covers
MinutesOf(b) == {m \in 0..MaxMinute : b.startMinutes <= m /\ m < b.endMinutes}

\* C8: for blocks whose start is before their end, findOverlappingBlocks
\* returns exactly the existing blocks that have another id than the
\* candidate, are on the candidate's day and share at least one minute with
\* it (the intervals are half-open, so blocks that only touch share none);
\* the candidate itself and blocks of other days are never returned.
C8_OverlapsAreExact ==
    last.op = "findOverlappingBlocks" =>
        LET c == input.newBlock
            StartsBeforeEnd(b) == b.startMinutes < b.endMinutes
            Expected(b) ==
                /\ b.id # c.id
                /\ b.dayOfWeek = c.dayOfWeek
                /\ MinutesOf(b) \cap MinutesOf(c) # {}
        IN (StartsBeforeEnd(c) /\ \A i \in 1..Len(input.blocks) :
                                      StartsBeforeEnd(input.blocks[i]))
           => /\ output = SelectSeq(input.blocks, Expected)
              /\ \A i \in 1..Len(output) :
                     /\ output[i].id # c.id
                     /\ output[i].dayOfWeek = c.dayOfWeek

\* an edited block among a touching and an overlapping neighbour
C8_Witness ==
    /\ last.op = "findOverlappingBlocks"
    /\ Len(input.blocks) = 2
    /\ input.newBlock.id = 1
    /\ input.blocks[1].dayOfWeek = input.newBlock.dayOfWeek
    /\ input.blocks[2].dayOfWeek = input.newBlock.dayOfWeek
    /\ input.blocks[1].endMinutes = input.newBlock.startMinutes
    /\ input.blocks[2].startMinutes < input.newBlock.endMinutes
    /\ input.newBlock.startMinutes < input.blocks[2].startMinutes
    /\ output = <<input.blocks[2]>>

\* how many errors of a result name the field with the message
Count(errors, field, message) ==
    Cardinality({i \in 1..Len(errors) :
                    errors[i] = [field |-> field, message |-> message]})

Indicator(failed) == IF failed THEN 1 ELSE 0

\* C9: validateRoutineBlock runs its five checks independently: start
\* missing or outside [0, 1439], end missing or outside [0, 1439], start and
\* end both present and equal, dayOfWeek missing or outside [0, 6],
\* activityTypeId missing or empty.  The result has exactly one error for each
\* failing check, with that check's field and message, and isValid is true
\* exactly when no check fails.
C9_BlockChecksIndependent ==
    last.op = "validateRoutineBlock" =>
        LET b == input.value
            errors == output.errors
            badStart == ~Has(b, "startMinutes")
                           \/ b.startMinutes \notin 0..1439
            badEnd == ~Has(b, "endMinutes") \/ b.endMinutes \notin 0..1439
            noDuration == /\ Has(b, "startMinutes") /\ Has(b, "endMinutes")
                          /\ b.startMinutes = b.endMinutes
            badDay == ~Has(b, "dayOfWeek") \/ b.dayOfWeek \notin 0..6
            noType == ~Has(b, "activityTypeId") \/ b.activityTypeId = NoId
        IN /\ Count(errors, "startMinutes",
                    "Start time must be between 0 and 1439 minutes")
                = Indicator(badStart)
           /\ Count(errors, "endMinutes",
                    "End time must be between 0 and 1439 minutes")
                = Indicator(badEnd)
           /\ Count(errors, "endMinutes",
                    "Block must have a duration greater than 0")
                = Indicator(noDuration)
           /\ Count(errors, "dayOfWeek",
                    "Day of week must be between 0 (Sunday) and 6 (Saturday)")
                = Indicator(badDay)
           /\ Count(errors, "activityTypeId", "Activity type is required")
                = Indicator(noType)
           /\ Len(errors) = Indicator(badStart) + Indicator(badEnd)
                              + Indicator(noDuration) + Indicator(badDay)
                              + Indicator(noType)
           /\ output.isValid
                <=> ~(badStart \/ badEnd \/ noDuration \/ badDay \/ noType)

\* a block that fails all five checks at once
C9_Witness ==
    /\ last.op = "validateRoutineBlock"
    /\ Has(input.value, "startMinutes") /\ Has(input.value, "endMinutes")
    /\ input.value.startMinutes = MinutesInDay
    /\ input.value.endMinutes = MinutesInDay
    /\ Len(output.errors) = 5
    /\ ~output.isValid

\* C10: validateGoal reports a goal valid exactly when its name is present
\* and has a character that is not white space, its estimatedMinutes is
\* present and greater than zero, and its activityTypeId is present; each of
\* the three checks that fails adds its own error, whatever the others do.
C10_GoalValidIffThreeChecks ==
    last.op = "validateGoal" =>
        LET g == input.value
            errors == output.errors
            named == Has(g, "name")
                        /\ \E i \in 1..Len(g.name) : g.name[i] # " "
            estimated == Has(g, "estimatedMinutes") /\ g.estimatedMinutes > 0
            typed == Has(g, "activityTypeId") /\ g.activityTypeId # NoId
        IN /\ output.isValid <=> (named /\ estimated /\ typed)
           /\ Count(errors, "name", "Goal name is required")
                = Indicator(~named)
           /\ Count(errors, "estimatedMinutes",
                    "Estimated time must be greater than 0")
                = Indicator(~estimated)
           /\ Count(errors, "activityTypeId", "Activity type is required")
                = Indicator(~typed)
           /\ Len(errors) = Indicator(~named) + Indicator(~estimated)
                              + Indicator(~typed)

\* a goal whose name is only white space and that fails the other two checks
C10_Witness ==
    /\ last.op = "validateGoal"
    /\ Has(input.value, "name")
    /\ Len(input.value.name) > 0
    /\ Has(input.value, "estimatedMinutes")
    /\ Len(output.errors) = 3
    /\ ~output.isValid

----------------------------------------------------------------------------
(* Claims about the block editor *)

\* every block of every routine
AllBlocks ==
    UNION {{r.blocks[i] : i \in 1..Len(r.blocks)} :
              r \in {routines[k] : k \in 1..Len(routines)}}

WellFormed(b) ==
    /\ b.startMinutes # b.endMinutes
    /\ b.startMinutes \in 0..1439
    /\ b.endMinutes \in 0..1439
    /\ b.dayOfWeek \in 0..6

\* C11: after any sequence of block-editor saves, copyDayBlocks,
\* duplicateRoutine, deleteRoutineBlock and deleteGoal, every block of every
\* routine has startMinutes different from endMinutes, both within
\* [0, 1439], and dayOfWeek within [0, 6]; and a save whose times are equal or
\* outside [0, 1439] leaves the routines as they were.
C11_BlocksStayWellFormed ==
    /\ [](\A b \in AllBlocks : WellFormed(b))
    /\ [][(/\ last'.op = "handleSave"
           /\ \/ last'.startMinutes = last'.endMinutes
              \/ last'.startMinutes \notin 0..1439
              \/ last'.endMinutes \notin 0..1439)
          => routines' = routines]_vars

\* a refused save of a block ending at 1440, in a routine that holds a block
\* wrapping past midnight and a copy of it on another day
C11_Witness ==
    /\ last.op = "handleSave"
    /\ last.endMinutes = MinutesInDay
    /\ \E b \in AllBlocks, c \in AllBlocks :
          /\ b.startMinutes > b.endMinutes
          /\ c.id > b.id
          /\ c.dayOfWeek # b.dayOfWeek
          /\ c.startMinutes = b.startMinutes

\* C12: every goal the add-goal form puts in the store has estimatedMinutes
\* greater than 0, whatever text was typed as the estimate.
C12_FormGoalsHavePositiveEstimate ==
    \A i \in 1..Len(goals) : goals[i].estimatedMinutes > 0

----------------------------------------------------------------------------
(* Claims about predictions and analytics *)

\* the effective duration as the specification words it
EffectiveDuration(b) ==
    IF b.endMinutes > b.startMinutes
    THEN b.endMinutes - b.startMinutes
    ELSE (1440 - b.startMinutes) + b.endMinutes

RECURSIVE SumOfEffective(_)
SumOfEffective(blocks) ==
    IF Len(blocks) = 0 THEN 0
    ELSE EffectiveDuration(Head(blocks)) + SumOfEffective(Tail(blocks))

\* C13: getWeeklyMinutesForActivityType(routine, a) is the sum, over the
\* routine's blocks whose activityTypeId is a, of endMinutes - startMinutes
\* when endMinutes > startMinutes and of (1440 - startMinutes) + endMinutes
\* when endMinutes <= startMinutes; other blocks contribute nothing.
C13_WeeklyMinutesIsWrapAdjustedSum ==
    last.op = "getWeeklyMinutesForActivityType" =>
        output = SumOfEffective(
                     SelectSeq(input.routine.blocks,
                         LAMBDA b : b.activityTypeId = input.activityTypeId))

\* what a claim about predictGoalCompletion speaks of: the remainder, the
\* weekly rate, today (the UTC calendar day) and the number of history
\* entries of the goal's activity type
Remaining == input.goal.estimatedMinutes - input.goal.loggedMinutes

Rate ==
    SumOfEffective(SelectSeq(input.routine.blocks,
        LAMBDA b : b.activityTypeId = input.goal.activityTypeId))

Today == [day |-> now \div TicksPerDay]

MatchingEntries ==
    IF "trackingHistory" \in DOMAIN input.optional
    THEN Cardinality({i \in 1..Len(input.optional.trackingHistory) :
             input.optional.trackingHistory[i].activityTypeId
                 = input.goal.activityTypeId})
    ELSE 0

\* C14: in the degenerate branch of predictGoalCompletion, a remainder of 0
\* or less (whatever the weekly rate) gives predictedCompletionDate = today
\* and weeksRemaining = 0; a positive remainder with a weekly rate of 0 gives
\* null for both; confidenceLevel is 'low' in both cases, whatever the
\* tracking history holds.
C14_DegenerateBranch ==
    last.op = "predictGoalCompletion" =>
        /\ Remaining <= 0 =>
              /\ output.predictedCompletionDate = Today
              /\ output.weeksRemaining = DoubleZero
              /\ output.confidenceLevel = "low"
        /\ (Remaining > 0 /\ Rate = 0) =>
              /\ output.predictedCompletionDate = Null
              /\ output.weeksRemaining = Null
              /\ output.confidenceLevel = "low"

\* a goal just done, with a weekly rate and a long matching history
C14_Witness ==
    /\ last.op = "predictGoalCompletion"
    /\ Remaining = 0
    /\ Rate > 0
    /\ MatchingEntries >= HighConfidenceEntries
    /\ output.confidenceLevel = "low"
    /\ output.predictedCompletionDate = Today

\* C15: with a positive remainder and a positive weekly rate,
\* predictGoalCompletion returns weeksRemaining = remaining / rate and a
\* predictedCompletionDate exactly ceil(7 * remaining / rate) calendar days
\* after today.
C15_CompletionDateIsExact ==
    (last.op = "predictGoalCompletion" /\ Remaining > 0 /\ Rate > 0) =>
        /\ output.weeksRemaining = DoubleQuotient(Remaining, Rate)
        /\ output.predictedCompletionDate
             = [day |-> Today.day + ((7 * Remaining + Rate - 1) \div Rate)]

\* C16: in the non-degenerate branch, confidenceLevel depends only on the
\* number n of history entries of the goal's activity type: 'high' for
\* n >= 14, 'medium' for 7 <= n < 14, 'low' for n < 7 or no history.
C16_ConfidenceFromMatchingEntries ==
    (last.op = "predictGoalCompletion" /\ Remaining > 0 /\ Rate > 0) =>
        output.confidenceLevel =
            IF MatchingEntries >= 14 THEN "high"
            ELSE IF MatchingEntries >= 7 THEN "medium"
            ELSE "low"

\* 13 matching entries among 21: 'medium', though the history is long
C16_Witness ==
    /\ last.op = "predictGoalCompletion"
    /\ Remaining > 0 /\ Rate > 0
    /\ MatchingEntries = 13
    /\ Len(input.optional.trackingHistory) = 21
    /\ output.confidenceLevel = "medium"

\* the positions of the active goals in the list given to predictAllGoals
ActivePositions ==
    {i \in 1..Len(input.goals) : input.goals[i].status = "active"}

\* the position of the k-th active goal
ActivePosition(k) ==
    CHOOSE i \in ActivePositions :
        Cardinality({j \in ActivePositions : j <= i}) = k

\* C17: predictAllGoals returns exactly one prediction per goal whose status
\* is 'active', in the order of the input and with that goal's id, and none
\* for a completed, paused or archived goal.
C17_OnePredictionPerActiveGoal ==
    last.op = "predictAllGoals" =>
        /\ Len(output) = Cardinality(ActivePositions)
        /\ \A k \in 1..Len(output) :
               output[k].goalId = input.goals[ActivePosition(k)].id
        /\ \A i \in 1..Len(input.goals) :
               Cardinality({k \in 1..Len(output) :
                                output[k].goalId = input.goals[i].id})
                   = IF i \in ActivePositions THEN 1 ELSE 0

\* goals 3, 2, 1 with the middle one paused: predictions for 3 and then 1
C17_Witness ==
    /\ last.op = "predictAllGoals"
    /\ Len(input.goals) = 3
    /\ input.goals[1].id = 3 /\ input.goals[1].status = "active"
    /\ input.goals[2].status = "paused"
    /\ input.goals[3].id = 1 /\ input.goals[3].status = "active"
    /\ Len(output) = 2
    /\ output[1].goalId = 3 /\ output[2].goalId = 1

WithoutDates(predictions) ==
    [k \in 1..Len(predictions) |->
        [f \in DOMAIN predictions[k] \ {"predictedCompletionDate"} |->
            predictions[k][f]]]

RowsOf(id) == {k \in 1..Len(output) : output[k].activityTypeId = id}

\* the activity types listed in the activityTypes argument
Listed == {input.activityTypes[i] : i \in 1..Len(input.activityTypes)}

\* the wrap-adjusted duration of a block: 1440 more when it is negative
WrapAdjusted(b) ==
    IF b.endMinutes - b.startMinutes < 0
    THEN b.endMinutes - b.startMinutes + 1440
    ELSE b.endMinutes - b.startMinutes

\* the wrap-adjusted minutes of the first n blocks that are of type id
RECURSIVE PlannedUpTo(_, _)
PlannedUpTo(n, id) ==
    IF n = 0 THEN 0
    ELSE PlannedUpTo(n - 1, id)
           + (IF input.routine.blocks[n].activityTypeId = id
              THEN WrapAdjusted(input.routine.blocks[n]) ELSE 0)

Planned(id) == PlannedUpTo(Len(input.routine.blocks), id)

\* C19: getRoutineBreakdown returns exactly one row for each listed activity
\* type whose blocks sum to more than 0 planned minutes and no row for any
\* other type; a row's plannedMinutes is the sum of the wrap-adjusted
\* durations of its type's blocks and its percentageOfWeek is
\* plannedMinutes / 10080 * 100; the rows are in non-increasing order of
\* plannedMinutes.
C19_RoutineBreakdownRows ==
    last.op = "getRoutineBreakdown" =>
        /\ \A id \in PlanTypes \cup Listed :
               Cardinality(RowsOf(id)) =
                   IF id \in Listed /\ Planned(id) > 0 THEN 1 ELSE 0
        /\ \A k \in 1..Len(output) :
               /\ output[k].plannedMinutes = Planned(output[k].activityTypeId)
               /\ output[k].percentageOfWeek =
                      DoubleTimes(DoubleQuotient(output[k].plannedMinutes,
                                                 10080), 100)
        /\ \A k \in 1..(Len(output) - 1) :
               output[k].plannedMinutes >= output[k + 1].plannedMinutes

\* types 1, 2, 3 listed, 60 minutes of type 1 and 120 of type 2: the row of
\* type 2 (1.1904761904761905 per cent, as a double) and then that of type 1
C19_Witness ==
    /\ last.op = "getRoutineBreakdown"
    /\ input.activityTypes = <<1, 2, 3>>
    /\ Len(output) = 2
    /\ output[1].activityTypeId = 2 /\ output[1].plannedMinutes = 120
    /\ output[1].percentageOfWeek
           = [hi |-> 39945752, lo |-> 51130563, point |-> 1]
    /\ output[2].activityTypeId = 1 /\ output[2].plannedMinutes = 60

\* an entry that C20 counts: dated in [weekStartDate, weekStartDate + 7 days)
\* and finished
IsCounted(entry) ==
    /\ entry.date >= input.weekStartDate
    /\ entry.date < input.weekStartDate + 7
    /\ entry.endTime # Undefined

\* the time, in ticks, of the counted entries of type id among the first n
RECURSIVE ActualUpTo(_, _)
ActualUpTo(n, id) ==
    IF n = 0 THEN 0
    ELSE ActualUpTo(n - 1, id)
           + (IF /\ input.trackingEntries[n].activityTypeId = id
                 /\ IsCounted(input.trackingEntries[n])
              THEN input.trackingEntries[n].endTime
                     - input.trackingEntries[n].startTime
              ELSE 0)

Actual(id) == ActualUpTo(Len(input.trackingEntries), id)

\* C20: getTrackedBreakdown counts an entry towards its activity type's
\* actualMinutes if and only if its date lies in [weekStartDate,
\* weekStartDate + 7 days) and it has an endTime; activity types with 0
\* actual minutes get no row, and the rows are in non-increasing order of
\* actualMinutes.
C20_TrackedBreakdownCountsTheWeek ==
    last.op = "getTrackedBreakdown" =>
        /\ \A id \in PlanTypes \cup Listed :
               Cardinality(RowsOf(id)) =
                   IF id \in Listed /\ Actual(id) > 0 THEN 1 ELSE 0
        /\ \A k \in 1..Len(output) :
               output[k].actualMinutes = Actual(output[k].activityTypeId)
        /\ \A k \in 1..(Len(output) - 1) :
               output[k].actualMinutes >= output[k + 1].actualMinutes

----------------------------------------------------------------------------
(* Claims about the time utilities *)

IsMinuteOfDay(m) == m >= 0 /\ m <= 1439

\* the number that two digit characters spell
TwoDigits(str, i) == 10 * DigitOf(str[i]) + DigitOf(str[i + 1])

\* C21: for every integer m in [0,1439], minutesToTimeString(m) is a string
\* of five characters 'HH:MM', zero-padded, with HH in 00..23 and MM in
\* 00..59, and timeStringToMinutes of it is m.
C21_TimeStringRoundTrip ==
    /\ (last.op = "minutesToTimeString" /\ IsMinuteOfDay(input)) =>
           /\ Len(output.timeString) = 5
           /\ output.timeString[3] = ":"
           /\ \A i \in {1, 2, 4, 5} : IsDigit(output.timeString[i])
           /\ TwoDigits(output.timeString, 1) \in 0..23
           /\ TwoDigits(output.timeString, 4) \in 0..59
    /\ (last.op = "timeStringToMinutes" /\ IsMinuteOfDay(input)) =>
           /\ ~output.minutes.isNaN
           /\ output.minutes.value = input

\* 65 is '01:05' and comes back as 65
C21_Witness ==
    /\ last.op = "timeStringToMinutes"
    /\ input = 65
    /\ output.timeString = <<"0", "1", ":", "0", "5">>
    /\ output.minutes = [isNaN |-> FALSE, value |-> 65]

\* C22 (as stated): formatDuration(minutes) has an 'h' part if and only if
\* minutes >= 60, and with an 'h' part it has no '0m' remainder.
C22_HoursFromSixtyMinutes ==
    last.op = "formatDuration" =>
        /\ (\E i \in 1..Len(output) : output[i] = "h")
               <=> input >= 60 * TicksPerMinute
        /\ (\E i \in 1..Len(output) : output[i] = "h") =>
               ~(Len(output) >= 3 /\ SubSeq(output, Len(output) - 2, Len(output))
                                        = <<" ", "0", "m">>)

\* C22 (amended): formatDuration(minutes) has an 'h' part if and only if
\* minutes, rounded to the nearest minute (halves upwards), is 60 or more,
\* that is from 59.5 minutes on; with an 'h' part it has no '0m' remainder.
C22_HoursFromSixtyRoundedMinutes ==
    last.op = "formatDuration" =>
        /\ (\E i \in 1..Len(output) : output[i] = "h")
               <=> 2 * input >= 119 * TicksPerMinute
        /\ (\E i \in 1..Len(output) : output[i] = "h") =>
               ~(Len(output) >= 3 /\ SubSeq(output, Len(output) - 2, Len(output))
                                        = <<" ", "0", "m">>)

\* 59.5 minutes (119 ticks) are shown as '1h'
C22_Witness ==
    /\ last.op = "formatDuration"
    /\ input = 119
    /\ output = <<"1", "h">>

----------------------------------------------------------------------------
(* Claims about the store's tracking, routine and block actions *)

\* the actions that log minutes to a goal
IsLogging(op) ==
    op \in {"logMinutesToGoal", "stopTracking", "startTracking",
            "addCompletedEntry"}

\* C23: the only change of a goal's status that logging minutes performs
\* (logMinutesToGoal, also reached from stopTracking and addCompletedEntry)
\* is from active to completed, when loggedMinutes reaches estimatedMinutes;
\* a paused, archived or completed goal keeps its status.
C23_LoggingOnlyCompletesActiveGoals ==
    [][IsLogging(last'.op) =>
          \A i \in 1..Len(goals) :
              (i <= Len(goals') /\ goals'[i].status # goals[i].status) =>
                  /\ goals[i].status = "active"
                  /\ goals'[i].status = "completed"
                  /\ goals'[i].loggedMinutes >= goals'[i].estimatedMinutes]_vars

\* the blocks of a routine on the days that satisfy OnDay, in their order
BlocksOn(routine, days) ==
    SelectSeq(routine.blocks, LAMBDA b : b.dayOfWeek \in days)

\* c is a copy of b: the same times, activity type and goal
IsCopyOf(c, b) ==
    /\ c.startMinutes = b.startMinutes
    /\ c.endMinutes = b.endMinutes
    /\ c.activityTypeId = b.activityTypeId
    /\ c.goalId = b.goalId

AllDays == 0..6

\* C24: copyDayBlocks(routineId, fromDay, toDays) leaves unchanged the blocks
\* of every day outside toDays and every other routine; afterwards each day
\* in toDays holds exactly one copy (the same times, activity type and goal,
\* under a new id) of each block that was on fromDay and no other block;
\* with an unknown routineId the state is unchanged.
C24_CopyDayBlocksCopiesExactly ==
    [][last'.op = "copyDayBlocks" =>
          LET targets == {last'.toDays[k] : k \in 1..Len(last'.toDays)}
          IN IF last'.id \notin Ids(routines)
             THEN routines' = routines
             ELSE /\ Len(routines') = Len(routines)
                  /\ \A i \in 1..Len(routines) :
                       IF routines[i].id # last'.id
                       THEN routines'[i] = routines[i]
                       ELSE LET source == BlocksOn(routines[i], {last'.fromDay})
                            IN /\ BlocksOn(routines'[i], AllDays \ targets)
                                    = BlocksOn(routines[i], AllDays \ targets)
                               /\ \A d \in targets :
                                    LET copies == BlocksOn(routines'[i], {d})
                                    IN /\ Len(copies) = Len(source)
                                       /\ \A k \in 1..Len(copies) :
                                            /\ IsCopyOf(copies[k], source[k])
                                            /\ copies[k].id
                                                 \notin Ids(routines[i].blocks)
                                            /\ \A j \in 1..Len(copies) :
                                                 copies[j].id = copies[k].id
                                                     => j = k]_vars

\* the entry at index i is the one being tracked and is in progress
InProgress(i) ==
    /\ trackingEntries[i].id = currentTrackingEntryId
    /\ trackingEntries[i].endTime = Undefined

\* the entry that startTracking has just appended
NewEntry == trackingEntries'[Len(trackingEntries')]

\* startTracking returns a new entry's id, makes it the current entry and
\* leaves it without endTime
StartsNewEntry ==
    /\ Len(trackingEntries') = Len(trackingEntries) + 1
    /\ NewEntry.id \notin Ids(trackingEntries)
    /\ NewEntry.endTime = Undefined
    /\ currentTrackingEntryId' = NewEntry.id

C26_CurrentEntryIsOpen ==
    currentTrackingEntryId # NoId =>
        \E i \in 1..Len(trackingEntries) :
            /\ trackingEntries[i].id = currentTrackingEntryId
            /\ trackingEntries[i].endTime = Undefined

\* stopTracking has just been called for an entry that already had an
\* endTime, for an id that no entry has, or with no argument while nothing
\* was being tracked
StopHasNothingToStop ==
    /\ last'.op = "stopTracking"
    /\ IF last'.id # NoId
       THEN \A i \in 1..Len(trackingEntries) :
                trackingEntries[i].id = last'.id =>
                    trackingEntries[i].endTime # Undefined
       ELSE currentTrackingEntryId = NoId

\* C27: stopTracking is idempotent: called for an entry that already has an
\* endTime, for an unknown id, or with no argument when nothing is being
\* tracked, it changes no tracking entry and no goal, so no entry's minutes
\* are logged to its goal twice.
C27_StopTrackingIdempotent ==
    [][StopHasNothingToStop =>
           /\ trackingEntries' = trackingEntries
           /\ goals' = goals]_vars

\* stopTracking has just been called for an entry that was stopped a
\* minute earlier; its minute is in its goal once
C27_Witness ==
    /\ last.op = "stopTracking"
    /\ last.id # NoId
    /\ \E i \in 1..Len(trackingEntries), j \in 1..Len(goals) :
           /\ trackingEntries[i].id = last.id
           /\ trackingEntries[i].startTime = 0
           /\ trackingEntries[i].endTime = 1
           /\ now = 2
           /\ goals[j].id = trackingEntries[i].goalId
           /\ goals[j].loggedMinutes = 1

\* C28: in every state reachable through the routine actions,
\* activeRoutineId is null or the id of an existing routine, and a routine
\* has isActive = true exactly when its id equals activeRoutineId.
C28_ActiveRoutineIdMatchesFlags ==
    /\ activeRoutineId # NoId => activeRoutineId \in Ids(routines)
    /\ \A i \in 1..Len(routines) :
           routines[i].isActive <=> routines[i].id = activeRoutineId

\* the end of the minutes that a block covers on its own day: a block with
\* endMinutes < startMinutes runs to the end of the day
CoveredUntil(b) ==
    IF b.endMinutes < b.startMinutes THEN MinutesInDay ELSE b.endMinutes

ShareAMinute(a, b) ==
    /\ a.startMinutes < CoveredUntil(b)
    /\ b.startMinutes < CoveredUntil(a)

\* C29: after any sequence of block-editor saves, block deletions and
\* single-day copyDayBlocks calls, no two blocks on the same dayOfWeek of a
\* routine cover a common minute of that day, a block with endMinutes <
\* startMinutes covering [startMinutes, 1440).
C29_NoTwoBlocksShareAMinute ==
    \A r \in 1..Len(routines) :
        \A i, j \in 1..Len(routines[r].blocks) :
            LET a == routines[r].blocks[i]
                b == routines[r].blocks[j]
            IN (i # j /\ a.dayOfWeek = b.dayOfWeek) => ~ShareAMinute(a, b)

\* the sum of the rounded durations of the finished entries of es whose
\* goalId is goalId
RECURSIVE FinishedMinutes(_, _)
FinishedMinutes(es, goalId) ==
    IF es = <<>> THEN 0
    ELSE LET e == Head(es)
         IN (IF e.goalId = goalId /\ e.endTime # Undefined
             THEN RoundMinutes(e.endTime - e.startTime) ELSE 0)
            + FinishedMinutes(Tail(es), goalId)

\* C30: in every state reachable through addGoal and the tracking actions,
\* each goal's loggedMinutes equals the sum of the rounded durations of the
\* finished tracking entries whose goalId is that goal.
C30_LoggedMinutesIsSumOfEntries ==
    \A j \in 1..Len(goals) :
        goals[j].loggedMinutes = FinishedMinutes(trackingEntries, goals[j].id)

====
